---- MODULE Spec2Model ----
(***************************************************************************)
(* Market-structure core of chart-analysis: swing detection                *)
(* (detect_swings), breakout-gated classification (classify_swings_v2),    *)
(* the two reversal detectors and the structure fusion                     *)
(* (merge_structure_with_events).                                          *)
(*                                                                         *)
(* Prices are positive integers.  NaN and +/-inf are encoded as integers   *)
(* outside the price range; every comparison that involves a possibly-NaN  *)
(* operand goes through Gt/Lt so that it is false on NaN, as in IEEE.      *)
(* Python index i is position i+1 of a TLA+ sequence.                      *)
(***************************************************************************)
EXTENDS Integers, Sequences, FiniteSets, TLC

\* ---------------------------------------------------------------- bounds
MaxPrice == 3
MaxLen == 5
MaxWindow == 2
MaxEvents == 4
RevMaxPrice == 4
RevMaxLen == 4
V3MaxLen == 4
RerunMaxLen == 4
MergeMaxIdx == 5
MaxLevel == 2
LabelSpread == 2

\* ------------------------------------------------ special float values
NaN == -1
PosInf == 1000000
NegInf == -1000000

Prices == 1..MaxPrice
Levels == Prices \cup {NaN}

IsNaN(x) == x = NaN
NotNa(x) == x # NaN
IsInf(x) == x = PosInf \/ x = NegInf
Gt(a, b) == NotNa(a) /\ NotNa(b) /\ a > b
Lt(a, b) == NotNa(a) /\ NotNa(b) /\ a < b
Abs(x) == IF x < 0 THEN -x ELSE x
Min2(a, b) == IF a < b THEN a ELSE b
Max2(a, b) == IF a > b THEN a ELSE b

\* np.minimum / np.maximum: NaN if either operand is NaN
NpMinimum(a, b) == IF IsNaN(a) \/ IsNaN(b) THEN NaN ELSE Min2(a, b)
NpMaximum(a, b) == IF IsNaN(a) \/ IsNaN(b) THEN NaN ELSE Max2(a, b)

\* ------------------------------------------------------------------ bars
NaNBar == [open |-> NaN, high |-> NaN, low |-> NaN, close |-> NaN]

\* Valid bars: low <= open, close <= high.  The model draws open and close
\* from the bar's extremes (full-body bull or bear bar) or a flat bar, plus
\* the missing (all-NaN) bar.
BarSet ==
    {b \in [open : Prices, high : Prices, low : Prices, close : Prices] :
        /\ b.low <= b.high
        /\ \/ (b.open = b.low /\ b.close = b.high)
           \/ (b.open = b.high /\ b.close = b.low)} \cup {NaNBar}

Highs(bs) == [i \in 1..Len(bs) |-> bs[i].high]
Lows(bs) == [i \in 1..Len(bs) |-> bs[i].low]

\* -------------------------------------------------------- swing detector
\* Series.rolling(2*window+1, center=True, min_periods=1).max() at i:
\* the max of the non-NaN values at positions i-window..i+window that
\* exist; NaN when there is none.
WindowVals(s, i, w) ==
    {s[j] : j \in {k \in (i - w)..(i + w) : k >= 1 /\ k <= Len(s) /\ NotNa(s[k])}}

\* variant: a trailing window, center=True left out
RollingMaxTrailing(s, i, w) ==
    LET vs == {s[j] : j \in {k \in (i - 2 * w)..i :
                                k >= 1 /\ k <= Len(s) /\ NotNa(s[k])}}
    IN IF vs = {} THEN NaN ELSE CHOOSE m \in vs : \A v \in vs : v <= m

\* variant: the window reaches one bar further to the right
RollingMaxWide(s, i, w) ==
    LET vs == {s[j] : j \in {k \in (i - w)..(i + w + 1) :
                                k >= 1 /\ k <= Len(s) /\ NotNa(s[k])}}
    IN IF vs = {} THEN NaN ELSE CHOOSE m \in vs : \A v \in vs : v <= m

\* variant: a missing value inside the window makes the result missing
RollingMaxPropagate(s, i, w) ==
    LET ks == {k \in (i - w)..(i + w) : k >= 1 /\ k <= Len(s)}
    IN IF \E k \in ks : IsNaN(s[k]) THEN NaN
       ELSE CHOOSE m \in {s[k] : k \in ks} : \A k \in ks : s[k] <= m


RollingMax(s, i, w) ==
    LET vs == WindowVals(s, i, w)
    IN IF vs = {} THEN NaN ELSE CHOOSE m \in vs : \A v \in vs : v <= m

RollingMin(s, i, w) ==
    LET vs == WindowVals(s, i, w)
    IN IF vs = {} THEN NaN ELSE CHOOSE m \in vs : \A v \in vs : v >= m

\* variant: every flag of a run is kept
DetectDuplicatesKeepAll(arr) == [i \in 1..Len(arr) |-> arr[i]]

\* detect_duplicates: arr & ~roll(arr, 1) with the rolled first element
\* cleared.  (On an empty array prev_arr[0] = False raises IndexError; the
\* caller models that.)
detect_duplicates(arr) ==
    [i \in 1..Len(arr) |-> arr[i] /\ ~(i > 1 /\ arr[i - 1])]

\* variant: the flags are shifted by one bar less than the window
ShiftFlagsShort(arr, w) ==
    [i \in 1..Len(arr) |-> IF i <= w - 1 THEN FALSE ELSE arr[i - (w - 1)]]

\* np.roll(arr, w); arr[:w] = False
ShiftFlags(arr, w) ==
    [i \in 1..Len(arr) |-> IF i <= w THEN FALSE ELSE arr[i - w]]

\* Series.shift(w)
ShiftVals(s, w) ==
    [i \in 1..Len(s) |-> IF i <= w THEN NaN ELSE s[i - w]]

detect_swings(bs, w) ==
    LET highs == Highs(bs)
        lows == Lows(bs)
        is_high_raw == [i \in 1..Len(bs) |->
                          NotNa(highs[i]) /\ highs[i] = RollingMax(highs, i, w)]
        is_low_raw == [i \in 1..Len(bs) |->
                          NotNa(lows[i]) /\ lows[i] = RollingMin(lows, i, w)]
        is_high_dedup == detect_duplicates(is_high_raw)
        is_low_dedup == detect_duplicates(is_low_raw)
        hc == ShiftFlags(is_high_dedup, w)
        lc == ShiftFlags(is_low_dedup, w)
        hp == ShiftVals(highs, w)
        lp == ShiftVals(lows, w)
    IN [i \in 1..Len(bs) |->
          [swing_high_confirmed |-> hc[i],
           swing_low_confirmed |-> lc[i],
           swing_high_price |-> IF hc[i] THEN hp[i] ELSE NaN,
           swing_low_price |-> IF lc[i] THEN lp[i] ELSE NaN]]

\* How a call of detect_swings ends.  Series.rolling rejects a negative
\* scan window with ValueError (swings.py 60-63); on an empty frame
\* detect_duplicates writes prev_arr[0] of an empty array, an IndexError
\* (_structure_utils.py 27-28); every other call returns.
detect_swings_outcome(bs, w) ==
    IF 2 * w + 1 < 0 THEN "ValueError"
    ELSE IF Len(bs) = 0 THEN "IndexError"
    ELSE "returned"

\* ------------------------------------------------------ label sub-routine
\* tolerance_pct is the rational TolNum / TolDen (PRICE_TOLERANCE_PCT).
TolNum == 1
TolDen == 1000

\* variant: a difference of exactly the tolerance is not DOUBLE
ComparePricesStrict(current_price, last_price) ==
    IF last_price <= 0 \/ IsInf(last_price) THEN "None"
    ELSE IF Abs(current_price - last_price) * TolDen < TolNum * last_price
         THEN "DOUBLE"
    ELSE IF current_price > last_price THEN "HIGHER"
    ELSE "LOWER"

\* compare_prices: None without a usable reference, else DOUBLE when
\* |current - last| / last <= tolerance_pct, else HIGHER / LOWER.
compare_prices(current_price, last_price) ==
    IF last_price <= 0 \/ IsInf(last_price) THEN "None"
    ELSE IF Abs(current_price - last_price) * TolDen <= TolNum * last_price
         THEN "DOUBLE"
    ELSE IF current_price > last_price THEN "HIGHER"
    ELSE "LOWER"

\* variant: a first swing high, with no earlier high to compare with, is
\* labelled LH
ClassifySwingHighFirstLH(price, last_h_price) ==
    LET comparison == compare_prices(price, last_h_price)
    IN IF comparison = "None" THEN "LH"
       ELSE IF comparison = "DOUBLE" THEN "DT"
       ELSE IF comparison = "HIGHER" THEN "HH"
       ELSE "LH"


classify_swing_high(price, last_h_price) ==
    LET comparison == compare_prices(price, last_h_price)
    IN IF comparison = "None" THEN "HH"
       ELSE IF comparison = "DOUBLE" THEN "DT"
       ELSE IF comparison = "HIGHER" THEN "HH"
       ELSE "LH"

classify_swing_low(price, last_l_price) ==
    LET comparison == compare_prices(price, last_l_price)
    IN IF comparison = "None" THEN "LL"
       ELSE IF comparison = "DOUBLE" THEN "DB"
       ELSE IF comparison = "LOWER" THEN "LL"
       ELSE "HL"

\* ------------------------------------------------------ event stream
\* df.index[mask].tolist(): the positions where the flag is set, ascending
RECURSIVE IndexList(_, _)
IndexList(flags, i) ==
    IF i > Len(flags) THEN <<>>
    ELSE (IF flags[i] THEN <<i>> ELSE <<>>) \o IndexList(flags, i + 1)

Tag(idxs, kind) == [k \in 1..Len(idxs) |-> [idx |-> idxs[k], kind |-> kind]]

\* sorted(..., key=index) is stable: an element is placed after every
\* element already in the list whose index is not larger.
RECURSIVE InsertByIdx(_, _)
InsertByIdx(sorted, e) ==
    IF sorted = <<>> THEN <<e>>
    ELSE IF sorted[Len(sorted)].idx <= e.idx THEN Append(sorted, e)
    ELSE Append(InsertByIdx(SubSeq(sorted, 1, Len(sorted) - 1), e),
                sorted[Len(sorted)])

RECURSIVE StableSort(_, _)
StableSort(done, todo) ==
    IF todo = <<>> THEN done
    ELSE StableSort(InsertByIdx(done, Head(todo)), Tail(todo))

\* variant: the low events are listed before the high events
MergeLowsFirst(high_indices, low_indices) ==
    StableSort(<<>>, Tag(low_indices, "low") \o Tag(high_indices, "high"))

\* variant: events are keyed by bar, so a low event on a bar that also has
\* a high event is dropped
MergeOnePerBar(high_indices, low_indices) ==
    StableSort(<<>>,
        Tag(high_indices, "high")
        \o Tag(SelectSeq(low_indices,
                         LAMBDA i : \A k \in 1..Len(high_indices) :
                                        high_indices[k] # i), "low"))


merge_sorted_events(high_indices, low_indices) ==
    StableSort(<<>>, Tag(high_indices, "high") \o Tag(low_indices, "low"))

\* ---------------------------------------------- breakout-gated classifier
RECURSIVE FirstValid(_, _)
FirstValid(s, i) ==
    IF i > Len(s) THEN NaN
    ELSE IF NotNa(s[i]) THEN s[i]
    ELSE FirstValid(s, i + 1)

\* variant: the first bar's prices serve as the first label references
V2InitFirstBarRef(bs) ==
    [last_h_price |-> FirstValid(Highs(bs), 1),
     last_l_price |-> FirstValid(Lows(bs), 1),
     candidate_major_low |-> NaN,
     candidate_major_high |-> NaN,
     active_major_high |-> FirstValid(Highs(bs), 1),
     active_major_low |-> FirstValid(Lows(bs), 1),
     curr_bias |-> 0,
     label |-> "none"]

\* classifier state before the event loop (swings.py 192-203)
V2Init(bs) ==
    [last_h_price |-> NegInf,
     last_l_price |-> PosInf,
     candidate_major_low |-> NaN,
     candidate_major_high |-> NaN,
     active_major_high |-> FirstValid(Highs(bs), 1),
     active_major_low |-> FirstValid(Lows(bs), 1),
     curr_bias |-> 0,
     label |-> "none"]

\* variant: the BEAR breakout flips the trend and takes the new high but
\* leaves the low level where it was
V2HighKeepLow(st, price) ==
    LET label == classify_swing_high(price, st.last_h_price)
        s1 == [st EXCEPT !.last_h_price = price,
                         !.label = label,
                         !.candidate_major_high = price]
    IN IF s1.curr_bias = 1 THEN
           IF Gt(price, s1.active_major_high) THEN
               [s1 EXCEPT
                  !.active_major_low =
                      IF NotNa(s1.candidate_major_low)
                         /\ Gt(s1.candidate_major_low, s1.active_major_low)
                      THEN s1.candidate_major_low ELSE @,
                  !.active_major_high = price]
           ELSE s1
       ELSE IF s1.curr_bias = -1 THEN
           IF Gt(price, s1.active_major_high) THEN
               [s1 EXCEPT !.curr_bias = 1, !.active_major_high = price]
           ELSE s1
       ELSE [s1 EXCEPT !.active_major_high = price,
                       !.curr_bias = IF label = "HH" THEN 1 ELSE @]

\* variant: the BULL continuation raises the low level but leaves the high
\* level where it was
V2HighStaleLevel(st, price) ==
    LET label == classify_swing_high(price, st.last_h_price)
        s1 == [st EXCEPT !.last_h_price = price,
                         !.label = label,
                         !.candidate_major_high = price]
    IN IF s1.curr_bias = 1 THEN
           IF Gt(price, s1.active_major_high) THEN
               [s1 EXCEPT
                  !.active_major_low =
                      IF NotNa(s1.candidate_major_low)
                         /\ Gt(s1.candidate_major_low, s1.active_major_low)
                      THEN s1.candidate_major_low ELSE @]
           ELSE s1
       ELSE IF s1.curr_bias = -1 THEN
           IF Gt(price, s1.active_major_high) THEN
               [s1 EXCEPT
                  !.curr_bias = 1,
                  !.active_major_low =
                      IF NotNa(s1.candidate_major_low)
                      THEN s1.candidate_major_low ELSE @,
                  !.active_major_high = price]
           ELSE s1
       ELSE [s1 EXCEPT !.active_major_high = price,
                       !.curr_bias = IF label = "HH" THEN 1 ELSE @]

\* variant: the BULL continuation takes the new high but never raises the
\* low level
V2HighNoRaise(st, price) ==
    LET label == classify_swing_high(price, st.last_h_price)
        s1 == [st EXCEPT !.last_h_price = price,
                         !.label = label,
                         !.candidate_major_high = price]
    IN IF s1.curr_bias = 1 THEN
           IF Gt(price, s1.active_major_high) THEN
               [s1 EXCEPT !.active_major_high = price]
           ELSE s1
       ELSE IF s1.curr_bias = -1 THEN
           IF Gt(price, s1.active_major_high) THEN
               [s1 EXCEPT
                  !.curr_bias = 1,
                  !.active_major_low =
                      IF NotNa(s1.candidate_major_low)
                      THEN s1.candidate_major_low ELSE @,
                  !.active_major_high = price]
           ELSE s1
       ELSE [s1 EXCEPT !.active_major_high = price,
                       !.curr_bias = IF label = "HH" THEN 1 ELSE @]

\* variant: a swing high in a BULL or BEAR trend replaces the high level
\* whether or not it lies beyond it
V2HighUngated(st, price) ==
    LET label == classify_swing_high(price, st.last_h_price)
        s1 == [st EXCEPT !.last_h_price = price,
                         !.label = label,
                         !.candidate_major_high = price]
    IN IF s1.curr_bias = 1 THEN
           IF Gt(price, s1.active_major_high) THEN
               [s1 EXCEPT
                  !.active_major_low =
                      IF NotNa(s1.candidate_major_low)
                         /\ Gt(s1.candidate_major_low, s1.active_major_low)
                      THEN s1.candidate_major_low ELSE @,
                  !.active_major_high = price]
           ELSE [s1 EXCEPT !.active_major_high = price]
       ELSE IF s1.curr_bias = -1 THEN
           IF Gt(price, s1.active_major_high) THEN
               [s1 EXCEPT
                  !.curr_bias = 1,
                  !.active_major_low =
                      IF NotNa(s1.candidate_major_low)
                      THEN s1.candidate_major_low ELSE @,
                  !.active_major_high = price]
           ELSE [s1 EXCEPT !.active_major_high = price]
       ELSE [s1 EXCEPT !.active_major_high = price,
                       !.curr_bias = IF label = "HH" THEN 1 ELSE @]

\* one "high" iteration of the event loop (swings.py 210-233)
V2High(st, price) ==
    LET label == classify_swing_high(price, st.last_h_price)
        s1 == [st EXCEPT !.last_h_price = price,
                         !.label = label,
                         !.candidate_major_high = price]
    IN IF s1.curr_bias = 1 THEN
           IF Gt(price, s1.active_major_high) THEN
               [s1 EXCEPT
                  !.active_major_low =
                      IF NotNa(s1.candidate_major_low)
                         /\ Gt(s1.candidate_major_low, s1.active_major_low)
                      THEN s1.candidate_major_low ELSE @,
                  !.active_major_high = price]
           ELSE s1
       ELSE IF s1.curr_bias = -1 THEN
           IF Gt(price, s1.active_major_high) THEN
               [s1 EXCEPT
                  !.curr_bias = 1,
                  !.active_major_low =
                      IF NotNa(s1.candidate_major_low)
                      THEN s1.candidate_major_low ELSE @,
                  !.active_major_high = price]
           ELSE s1
       ELSE [s1 EXCEPT !.active_major_high = price,
                       !.curr_bias = IF label = "HH" THEN 1 ELSE @]

\* variant: the first lower low of a NEUTRAL trend sets the trend to BULL
V2LowWrongSign(st, price) ==
    LET label == classify_swing_low(price, st.last_l_price)
        s1 == [st EXCEPT !.last_l_price = price,
                         !.label = label,
                         !.candidate_major_low = price]
    IN IF s1.curr_bias = -1 THEN
           IF Lt(price, s1.active_major_low) THEN
               [s1 EXCEPT
                  !.active_major_high =
                      IF NotNa(s1.candidate_major_high)
                         /\ Lt(s1.candidate_major_high, s1.active_major_high)
                      THEN s1.candidate_major_high ELSE @,
                  !.active_major_low = price]
           ELSE s1
       ELSE IF s1.curr_bias = 1 THEN
           IF Lt(price, s1.active_major_low) THEN
               [s1 EXCEPT
                  !.curr_bias = -1,
                  !.active_major_high =
                      IF NotNa(s1.candidate_major_high)
                      THEN s1.candidate_major_high ELSE @,
                  !.active_major_low = price]
           ELSE s1
       ELSE [s1 EXCEPT !.active_major_low = price,
                       !.curr_bias = IF label = "LL" THEN 1 ELSE @]

\* one "low" iteration of the event loop (swings.py 235-258)
V2Low(st, price) ==
    LET label == classify_swing_low(price, st.last_l_price)
        s1 == [st EXCEPT !.last_l_price = price,
                         !.label = label,
                         !.candidate_major_low = price]
    IN IF s1.curr_bias = -1 THEN
           IF Lt(price, s1.active_major_low) THEN
               [s1 EXCEPT
                  !.active_major_high =
                      IF NotNa(s1.candidate_major_high)
                         /\ Lt(s1.candidate_major_high, s1.active_major_high)
                      THEN s1.candidate_major_high ELSE @,
                  !.active_major_low = price]
           ELSE s1
       ELSE IF s1.curr_bias = 1 THEN
           IF Lt(price, s1.active_major_low) THEN
               [s1 EXCEPT
                  !.curr_bias = -1,
                  !.active_major_high =
                      IF NotNa(s1.candidate_major_high)
                      THEN s1.candidate_major_high ELSE @,
                  !.active_major_low = price]
           ELSE s1
       ELSE [s1 EXCEPT !.active_major_low = price,
                       !.curr_bias = IF label = "LL" THEN -1 ELSE @]

V2Event(st, e, sw) ==
    IF e.kind = "high" THEN V2High(st, sw[e.idx].swing_high_price)
    ELSE V2Low(st, sw[e.idx].swing_low_price)

\* The event loop: steps[k] is the classifier state right after the k-th
\* event, together with the event and the state it was applied to.
RECURSIVE V2Loop(_, _, _, _)
V2Loop(st, events, sw, steps) ==
    IF events = <<>> THEN steps
    ELSE LET e == Head(events)
             post == V2Event(st, e, sw)
         IN V2Loop(post, Tail(events), sw,
                   Append(steps, [idx |-> e.idx, kind |-> e.kind,
                                  price |-> IF e.kind = "high"
                                            THEN sw[e.idx].swing_high_price
                                            ELSE sw[e.idx].swing_low_price,
                                  pre |-> st, post |-> post]))

V2Steps(bs, sw) ==
    V2Loop(V2Init(bs),
           merge_sorted_events(
               IndexList([i \in 1..Len(sw) |-> sw[i].swing_high_confirmed], 1),
               IndexList([i \in 1..Len(sw) |-> sw[i].swing_low_confirmed], 1)),
           sw, <<>>)

\* Last loop step that wrote row i (a later write at the same row wins),
\* 0 when no event wrote the row.
LastStepAt(steps, i) ==
    LET ks == {k \in 1..Len(steps) : steps[k].idx = i}
    IN IF ks = {} THEN 0 ELSE CHOOSE k \in ks : \A j \in ks : j <= k

\* Series.ffill()
RECURSIVE Ffill(_, _, _)
Ffill(s, i, last) ==
    IF i > Len(s) THEN <<>>
    ELSE LET v == IF NotNa(s[i]) THEN s[i] ELSE last
         IN <<v>> \o Ffill(s, i + 1, v)

\* classify_swings_v2: the per-bar columns after the loop and the fills.
\* trend_bias starts as a column of zeros, so its ffill finds no NaN.
classify_swings_v2(bs, sw) ==
    LET steps == V2Steps(bs, sw)
        at(i) == LastStepAt(steps, i)
        mh == Ffill([i \in 1..Len(bs) |->
                       IF at(i) = 0 THEN NaN
                       ELSE steps[at(i)].post.active_major_high], 1, NaN)
        ml == Ffill([i \in 1..Len(bs) |->
                       IF at(i) = 0 THEN NaN
                       ELSE steps[at(i)].post.active_major_low], 1, NaN)
    IN [i \in 1..Len(bs) |->
          [swing_type |-> IF at(i) = 0 THEN "none" ELSE steps[at(i)].post.label,
           major_high |-> mh[i],
           major_low |-> ml[i],
           trend_bias |-> IF at(i) = 0 THEN 0 ELSE steps[at(i)].post.curr_bias]]

\* ------------------------------------------------ close-based classifier
\* classify_swings_v3 (swings.py 271-379): one pass over the bars.
\* df[col].iloc[:window].max() / .min(): the extreme of the present values
\* among the first n, NaN when there is none.
HeadMax(s, n) ==
    LET vs == {s[k] : k \in {j \in 1..Min2(n, Len(s)) : NotNa(s[j])}}
    IN IF vs = {} THEN NaN ELSE CHOOSE m \in vs : \A v \in vs : v <= m

HeadMin(s, n) ==
    LET vs == {s[k] : k \in {j \in 1..Min2(n, Len(s)) : NotNa(s[j])}}
    IN IF vs = {} THEN NaN ELSE CHOOSE m \in vs : \A v \in vs : v >= m

V3Init(bs, w) ==
    [last_h_price |-> NegInf, last_l_price |-> PosInf,
     last_swing_high |-> NaN, last_swing_low |-> NaN,
     active_high |-> IF Len(bs) > w THEN HeadMax(Highs(bs), w)
                     ELSE HeadMax(Highs(bs), Len(bs)),
     active_low |-> IF Len(bs) > w THEN HeadMin(Lows(bs), w)
                    ELSE HeadMin(Lows(bs), Len(bs)),
     trend |-> 0, swing_type |-> "none"]

\* variant: the swing low of a bar is handled before its swing high
V3SwingsHighLast(st, swrow) ==
    LET a == IF swrow.swing_low_confirmed
             THEN [st EXCEPT
                     !.swing_type = classify_swing_low(swrow.swing_low_price,
                                                       st.last_l_price),
                     !.last_l_price = swrow.swing_low_price,
                     !.last_swing_low = swrow.swing_low_price,
                     !.active_low = IF st.trend = 1
                                    THEN swrow.swing_low_price
                                    ELSE st.active_low]
             ELSE st
    IN IF swrow.swing_high_confirmed
       THEN [a EXCEPT
               !.swing_type = classify_swing_high(swrow.swing_high_price,
                                                  a.last_h_price),
               !.last_h_price = swrow.swing_high_price,
               !.last_swing_high = swrow.swing_high_price,
               !.active_high = IF a.trend = -1
                               THEN swrow.swing_high_price
                               ELSE a.active_high]
       ELSE a

\* variant: the last swing prices used for the label are refreshed only
\* when the swing also moves the active level
V3SwingsStaleLast(st, swrow) ==
    LET a == IF swrow.swing_high_confirmed
             THEN [st EXCEPT
                     !.swing_type = classify_swing_high(swrow.swing_high_price,
                                                        st.last_h_price),
                     !.last_h_price = IF st.trend = -1
                                      THEN swrow.swing_high_price
                                      ELSE st.last_h_price,
                     !.last_swing_high = swrow.swing_high_price,
                     !.active_high = IF st.trend = -1
                                     THEN swrow.swing_high_price
                                     ELSE st.active_high]
             ELSE st
    IN IF swrow.swing_low_confirmed
       THEN [a EXCEPT
               !.swing_type = classify_swing_low(swrow.swing_low_price,
                                                 a.last_l_price),
               !.last_l_price = IF a.trend = 1
                                THEN swrow.swing_low_price
                                ELSE a.last_l_price,
               !.last_swing_low = swrow.swing_low_price,
               !.active_low = IF a.trend = 1
                              THEN swrow.swing_low_price
                              ELSE a.active_low]
       ELSE a

\* the swing updates of bar i (swings.py 329-347)
V3Swings(st, swrow) ==
    LET a == IF swrow.swing_high_confirmed
             THEN [st EXCEPT
                     !.swing_type = classify_swing_high(swrow.swing_high_price,
                                                        st.last_h_price),
                     !.last_h_price = swrow.swing_high_price,
                     !.last_swing_high = swrow.swing_high_price,
                     !.active_high = IF st.trend = -1
                                     THEN swrow.swing_high_price
                                     ELSE st.active_high]
             ELSE st
    IN IF swrow.swing_low_confirmed
       THEN [a EXCEPT
               !.swing_type = classify_swing_low(swrow.swing_low_price,
                                                 a.last_l_price),
               !.last_l_price = swrow.swing_low_price,
               !.last_swing_low = swrow.swing_low_price,
               !.active_low = IF a.trend = 1
                              THEN swrow.swing_low_price
                              ELSE a.active_low]
       ELSE a

\* variant: the breakout is tested on the bar's high and low
V3BreakByWick(st, bar) ==
    IF NotNa(st.active_high) /\ Gt(bar.high, st.active_high)
    THEN [st EXCEPT !.trend = 1,
                    !.active_low = IF NotNa(st.last_swing_low)
                                   THEN st.last_swing_low ELSE st.active_low,
                    !.active_high = NaN]
    ELSE IF NotNa(st.active_low) /\ Lt(bar.low, st.active_low)
    THEN [st EXCEPT !.trend = -1,
                    !.active_high = IF NotNa(st.last_swing_high)
                                    THEN st.last_swing_high ELSE st.active_high,
                    !.active_low = NaN]
    ELSE st

\* the breakout test of bar i on its close (swings.py 349-359)
V3Break(st, bar) ==
    IF NotNa(st.active_high) /\ Gt(bar.close, st.active_high)
    THEN [st EXCEPT !.trend = 1,
                    !.active_low = IF NotNa(st.last_swing_low)
                                   THEN st.last_swing_low ELSE st.active_low,
                    !.active_high = NaN]
    ELSE IF NotNa(st.active_low) /\ Lt(bar.close, st.active_low)
    THEN [st EXCEPT !.trend = -1,
                    !.active_high = IF NotNa(st.last_swing_high)
                                    THEN st.last_swing_high ELSE st.active_high,
                    !.active_low = NaN]
    ELSE st

\* steps[i]: the loop state bar i started from, the state its close was
\* tested against and the state after the test
RECURSIVE V3Loop(_, _, _, _, _)
V3Loop(st, i, bs, sw, steps) ==
    IF i > Len(bs) THEN steps
    ELSE LET tested == V3Swings([st EXCEPT !.swing_type = "none"], sw[i])
             post == V3Break(tested, bs[i])
         IN V3Loop(post, i + 1, bs, sw,
                   Append(steps, [pre |-> st, tested |-> tested, post |-> post]))

V3Steps(bs, sw, w) == V3Loop(V3Init(bs, w), 1, bs, sw, <<>>)

\* the arrays written by the loop (swings.py 361-369), then the two fills
\* (376-377)
classify_swings_v3(bs, sw, w) ==
    LET steps == V3Steps(bs, sw, w)
        mh == Ffill([i \in 1..Len(bs) |->
                       IF steps[i].post.trend = 1 THEN NaN
                       ELSE steps[i].post.active_high], 1, NaN)
        ml == Ffill([i \in 1..Len(bs) |->
                       IF steps[i].post.trend = -1 THEN NaN
                       ELSE steps[i].post.active_low], 1, NaN)
    IN [i \in 1..Len(bs) |->
          [swing_type |-> steps[i].post.swing_type,
           major_high |-> mh[i],
           major_low |-> ml[i],
           market_trend |-> steps[i].post.trend]]

\* ------------------------------------------------------ climax detector
\* true range: row-wise max (NaN skipped) of high-low, |high-prev_close|,
\* |low-prev_close|; NaN for a missing bar.
TrueRange(bs, i) ==
    LET b == bs[i]
        pc == IF i = 1 THEN NaN ELSE bs[i - 1].close
    IN IF IsNaN(b.high) \/ IsNaN(b.low) THEN NaN
       ELSE IF IsNaN(pc) THEN b.high - b.low
       ELSE Max2(b.high - b.low, Max2(Abs(b.high - pc), Abs(b.low - pc)))

RECURSIVE SumOver(_, _)
SumOver(f, S) ==
    IF S = {} THEN 0
    ELSE LET x == CHOOSE y \in S : TRUE IN f[x] + SumOver(f, S \ {x})

body_size(b) == IF IsNaN(b.close) \/ IsNaN(b.open) THEN NaN ELSE Abs(b.close - b.open)
is_bull(b) == Gt(b.close, b.open)
is_bear(b) == Lt(b.close, b.open)

\* body_size > atr * atr_multiplier, atr the rolling mean (min_periods=1)
\* of the true range over `lookback` bars and atr_multiplier = num / den:
\* body * count * den > num * sum, false when body or atr is NaN.
is_climax_bar(bs, i, num, den, lookback) ==
    LET tr == [k \in 1..Len(bs) |-> TrueRange(bs, k)]
        win == {k \in (i - lookback + 1)..i : k >= 1 /\ NotNa(tr[k])}
        body == body_size(bs[i])
    IN /\ NotNa(body)
       /\ win # {}
       /\ body * Cardinality(win) * den > num * SumOver(tr, win)

\* variant: the reversal bar must exceed the whole body of the bar before
\* it, not half of it
DetectClimaxFullBody(bs, num, den, lookback) ==
    LET prev_body(i) == IF i = 1 \/ IsNaN(body_size(bs[i - 1])) THEN 0
                        ELSE body_size(bs[i - 1])
        is_v_top(i) ==
            /\ i > 1
            /\ is_climax_bar(bs, i - 1, num, den, lookback) /\ is_bull(bs[i - 1])
            /\ is_bear(bs[i])
            /\ body_size(bs[i]) > prev_body(i)
            /\ Lt(bs[i].close, bs[i - 1].open)
        is_v_bottom(i) ==
            /\ i > 1
            /\ is_climax_bar(bs, i - 1, num, den, lookback) /\ is_bear(bs[i - 1])
            /\ is_bull(bs[i])
            /\ body_size(bs[i]) > prev_body(i)
            /\ Gt(bs[i].close, bs[i - 1].open)
    IN [i \in 1..Len(bs) |->
          [is_climax_top |-> is_v_top(i),
           is_climax_bottom |-> is_v_bottom(i),
           climax_top_price |-> IF is_v_top(i) THEN bs[i - 1].high ELSE NaN,
           climax_bottom_price |-> IF is_v_bottom(i) THEN bs[i - 1].low ELSE NaN]]


detect_climax_reversal(bs, num, den, lookback) ==
    LET prev_body(i) == IF i = 1 \/ IsNaN(body_size(bs[i - 1])) THEN 0
                        ELSE body_size(bs[i - 1])
        is_bear_reversal(i) ==
            /\ i > 1 /\ is_bull(bs[i - 1])
            /\ is_bear(bs[i])
            /\ 2 * body_size(bs[i]) > prev_body(i)
            /\ Lt(bs[i].close, bs[i - 1].open)
        is_bull_reversal(i) ==
            /\ i > 1 /\ is_bear(bs[i - 1])
            /\ is_bull(bs[i])
            /\ 2 * body_size(bs[i]) > prev_body(i)
            /\ Gt(bs[i].close, bs[i - 1].open)
        is_v_top(i) ==
            /\ i > 1
            /\ is_climax_bar(bs, i - 1, num, den, lookback) /\ is_bull(bs[i - 1])
            /\ is_bear_reversal(i)
        is_v_bottom(i) ==
            /\ i > 1
            /\ is_climax_bar(bs, i - 1, num, den, lookback) /\ is_bear(bs[i - 1])
            /\ is_bull_reversal(i)
    IN [i \in 1..Len(bs) |->
          [is_climax_top |-> is_v_top(i),
           is_climax_bottom |-> is_v_bottom(i),
           climax_top_price |-> IF is_v_top(i) THEN bs[i - 1].high ELSE NaN,
           climax_bottom_price |-> IF is_v_bottom(i) THEN bs[i - 1].low ELSE NaN]]

\* -------------------------------------------------- consecutive detector
\* cumsum of the flag within a group of consecutive set flags
RECURSIVE Streak(_, _)
Streak(flags, i) ==
    IF i < 1 THEN 0
    ELSE IF flags[i] THEN 1 + Streak(flags, i - 1)
    ELSE 0

\* variant: a run is flagged on the bar after the one that completes it
DetectConsecutiveLate(bs, consecutive_count) ==
    LET bear == [i \in 1..Len(bs) |-> is_bear(bs[i])]
        bull == [i \in 1..Len(bs) |-> is_bull(bs[i])]
        bear_start(i) == Streak(bear, i - 1) = consecutive_count
                         /\ i - 1 - consecutive_count >= 1
        bull_start(i) == Streak(bull, i - 1) = consecutive_count
                         /\ i - 1 - consecutive_count >= 1
    IN [i \in 1..Len(bs) |->
          [consecutive_bear_start |-> bear_start(i),
           consecutive_bull_start |-> bull_start(i),
           consecutive_top_price |->
               IF bear_start(i) THEN bs[i - 1 - consecutive_count].high ELSE NaN,
           consecutive_bottom_price |->
               IF bull_start(i) THEN bs[i - 1 - consecutive_count].low ELSE NaN]]


detect_consecutive_reversal(bs, consecutive_count) ==
    LET bear == [i \in 1..Len(bs) |-> is_bear(bs[i])]
        bull == [i \in 1..Len(bs) |-> is_bull(bs[i])]
        \* start_pos = pos - consecutive_count, used only when >= 0
        bear_start(i) == Streak(bear, i) = consecutive_count
                         /\ i - consecutive_count >= 1
        bull_start(i) == Streak(bull, i) = consecutive_count
                         /\ i - consecutive_count >= 1
    IN [i \in 1..Len(bs) |->
          [consecutive_bear_start |-> bear_start(i),
           consecutive_bull_start |-> bull_start(i),
           consecutive_top_price |->
               IF bear_start(i) THEN bs[i - consecutive_count].high ELSE NaN,
           consecutive_bottom_price |->
               IF bull_start(i) THEN bs[i - consecutive_count].low ELSE NaN]]

\* ---------------------------------------------------------------- fusion
\* An absent event frame (None) and a frame row without a set flag.
NoClimax == [is_climax_top |-> FALSE, is_climax_bottom |-> FALSE,
             climax_top_price |-> NaN, climax_bottom_price |-> NaN]
NoConsec == [consecutive_bear_start |-> FALSE, consecutive_bull_start |-> FALSE,
             consecutive_top_price |-> NaN, consecutive_bottom_price |-> NaN]

\* variant: the looser of the two prices when both detectors fire
OverrideHighLoose(cx, cs) ==
    LET current == IF cx.is_climax_top THEN cx.climax_top_price ELSE NaN
    IN IF cs.consecutive_bear_start
       THEN IF IsNaN(current) THEN cs.consecutive_top_price
            ELSE NpMaximum(current, cs.consecutive_top_price)
       ELSE current

\* override_high_price of one row (reversals.py 178-199): the climax price
\* where its flag is set, then the consecutive price where its flag is set,
\* combined with np.minimum when an override is already there.
override_high_price(cx, cs) ==
    LET current == IF cx.is_climax_top THEN cx.climax_top_price ELSE NaN
    IN IF cs.consecutive_bear_start
       THEN IF IsNaN(current) THEN cs.consecutive_top_price
            ELSE NpMinimum(current, cs.consecutive_top_price)
       ELSE current

\* override_low_price of one row (reversals.py 179-209)
override_low_price(cx, cs) ==
    LET current == IF cx.is_climax_bottom THEN cx.climax_bottom_price ELSE NaN
    IN IF cs.consecutive_bull_start
       THEN IF IsNaN(current) THEN cs.consecutive_bottom_price
            ELSE NpMaximum(current, cs.consecutive_bottom_price)
       ELSE current

\* loop state before the scan (reversals.py 217-221)
FuseInit == [curr_high |-> PosInf, last_v2_high |-> NaN,
             curr_low |-> NegInf, last_v2_low |-> NaN]

\* variant: a transition between absent and present is not a change
v2_changedStrict(v2, last_v2) ==
    IF IsNaN(v2) \/ IsNaN(last_v2) THEN FALSE
    ELSE v2 # last_v2

\* "v2_changed": NaN-aware inequality of the raw level with the last one seen
v2_changed(v2, last_v2) ==
    IF IsNaN(v2) /\ IsNaN(last_v2) THEN FALSE
    ELSE IF IsNaN(v2) \/ IsNaN(last_v2) THEN TRUE
    ELSE v2 # last_v2

\* variant: a present override always replaces the active level
FuseHighOverrideAlways(curr_high, last_v2_high, high, v2_h, ov_h) ==
    LET c1 == IF Gt(high, curr_high) THEN PosInf ELSE curr_high
        ch == v2_changed(v2_h, last_v2_high)
        c2 == IF ch /\ NotNa(v2_h) THEN v2_h ELSE c1
        l2 == IF ch THEN v2_h ELSE last_v2_high
        c3 == IF NotNa(ov_h) THEN ov_h ELSE c2
    IN [curr |-> c3, last_v2 |-> l2]

\* variant: a broken level falls back to the raw level on the next row
FuseHighRevert(curr_high, last_v2_high, high, v2_h, ov_h) ==
    LET c0 == IF curr_high = PosInf /\ NotNa(last_v2_high)
              THEN last_v2_high ELSE curr_high
        c1 == IF Gt(high, c0) THEN PosInf ELSE c0
        ch == v2_changed(v2_h, last_v2_high)
        c2 == IF ch /\ NotNa(v2_h) THEN v2_h ELSE c1
        l2 == IF ch THEN v2_h ELSE last_v2_high
        c3 == IF NotNa(ov_h) /\ (c2 = PosInf \/ ov_h < c2) THEN ov_h ELSE c2
    IN [curr |-> c3, last_v2 |-> l2]

\* high side of one loop iteration (reversals.py 234-258):
\* break, structural update, override tightening
FuseHigh(curr_high, last_v2_high, high, v2_h, ov_h) ==
    LET c1 == IF Gt(high, curr_high) THEN PosInf ELSE curr_high
        ch == v2_changed(v2_h, last_v2_high)
        c2 == IF ch /\ NotNa(v2_h) THEN v2_h ELSE c1
        l2 == IF ch THEN v2_h ELSE last_v2_high
        c3 == IF NotNa(ov_h) /\ (c2 = PosInf \/ ov_h < c2) THEN ov_h ELSE c2
    IN [curr |-> c3, last_v2 |-> l2]

\* low side of one loop iteration (reversals.py 260-284)
FuseLow(curr_low, last_v2_low, low, v2_l, ov_l) ==
    LET c1 == IF Lt(low, curr_low) THEN NegInf ELSE curr_low
        ch == v2_changed(v2_l, last_v2_low)
        c2 == IF ch /\ NotNa(v2_l) THEN v2_l ELSE c1
        l2 == IF ch THEN v2_l ELSE last_v2_low
        c3 == IF NotNa(ov_l) /\ (c2 = NegInf \/ ov_l > c2) THEN ov_l ELSE c2
    IN [curr |-> c3, last_v2 |-> l2]

\* one loop iteration; row carries high, low, major_high, major_low and the
\* two override prices
FuseStep(st, row) ==
    LET h == FuseHigh(st.curr_high, st.last_v2_high, row.high,
                      row.major_high, row.override_high_price)
        l == FuseLow(st.curr_low, st.last_v2_low, row.low,
                     row.major_low, row.override_low_price)
    IN [curr_high |-> h.curr, last_v2_high |-> h.last_v2,
        curr_low |-> l.curr, last_v2_low |-> l.last_v2]

\* the value written to adj_*_vals[i]
Emit(curr) == IF IsInf(curr) THEN NaN ELSE curr

RECURSIVE FuseLoop(_, _, _, _)
FuseLoop(st, rows, i, out) ==
    IF i > Len(rows) THEN out
    ELSE LET s2 == FuseStep(st, rows[i])
         IN FuseLoop(s2, rows, i + 1,
                     Append(out, [adjusted_major_high |-> Emit(s2.curr_high),
                                  adjusted_major_low |-> Emit(s2.curr_low)]))

\* rows of the merged frame: structure columns plus the override columns
FuseRows(bs, cl, cx, cs) ==
    [i \in 1..Len(bs) |->
        [high |-> bs[i].high, low |-> bs[i].low,
         major_high |-> cl[i].major_high, major_low |-> cl[i].major_low,
         override_high_price |-> override_high_price(cx[i], cs[i]),
         override_low_price |-> override_low_price(cx[i], cs[i])]]

\* variant: the scan is run whether or not an override exists
MergeAlwaysScan(rows) == FuseLoop(FuseInit, rows, 1, <<>>)

\* merge_structure_with_events: without any override the adjusted columns
\* are the raw ones (early return), otherwise the scan's output
merge_structure_with_events(rows) ==
    IF \A i \in 1..Len(rows) : IsNaN(rows[i].override_high_price)
                               /\ IsNaN(rows[i].override_low_price)
    THEN [i \in 1..Len(rows) |->
            [adjusted_major_high |-> rows[i].major_high,
             adjusted_major_low |-> rows[i].major_low]]
    ELSE FuseLoop(FuseInit, rows, 1, <<>>)

\* ---------------------------------------------------------------- logging
\* src/logging/logger.py: the module flag _configured and the root logger's
\* level and handler list.  A handler is its kind, level, format and target.
LevelNames == {"DEBUG", "INFO", "WARNING", "ERROR", "CRITICAL"}
LevelInputs == LevelNames \cup {"debug", "verbose"}

\* str.upper() on the level strings drawn
Upper(level) == IF level = "debug" THEN "DEBUG" ELSE level

\* getattr(logging, level.upper(), logging.INFO)
numeric_level(level) ==
    IF Upper(level) \in LevelNames THEN Upper(level) ELSE "INFO"

DefaultFormat == "[%(asctime)s] %(levelname)s [%(name)s:%(lineno)d] %(message)s"

LogArgs == [level : LevelInputs, log_to_file : BOOLEAN,
            log_file : {"None", "run.log"},
            format_string : {"None", "%(levelname)s - %(message)s"}]

format_string(a) ==
    IF a.format_string = "None" THEN DefaultFormat ELSE a.format_string

log_file(a) == IF a.log_file = "None" THEN "logs/app.log" ELSE a.log_file

console_handler(a) ==
    [kind |-> "StreamHandler", level |-> numeric_level(a.level),
     format |-> format_string(a), target |-> "stdout"]

file_handler(a) ==
    [kind |-> "FileHandler", level |-> numeric_level(a.level),
     format |-> format_string(a), target |-> log_file(a)]

\* the interpreter's root logger before any call: WARNING, no handler
LogStart == [configured |-> FALSE, level |-> "WARNING", handlers |-> <<>>]

\* variant: the early return on _configured is missing
ConfigureAlways(st, a) ==
    [configured |-> TRUE,
     level |-> numeric_level(a.level),
     handlers |-> <<console_handler(a)>>
                  \o (IF a.log_to_file THEN <<file_handler(a)>> ELSE <<>>)]

\* configure_logging, a call that returns
configure_logging(st, a) ==
    IF st.configured THEN st
    ELSE [configured |-> TRUE,
          level |-> numeric_level(a.level),
          handlers |-> <<console_handler(a)>>
                       \o (IF a.log_to_file THEN <<file_handler(a)>> ELSE <<>>)]

\* configure_logging when the log file cannot be created (mkdir or
\* FileHandler raise OSError, logger.py 77-79): the level and the console
\* handler are already set, _configured is not
configure_logging_raises(st, a) ==
    [configured |-> FALSE,
     level |-> numeric_level(a.level),
     handlers |-> <<console_handler(a)>>]

reset_logging(st) ==
    [configured |-> FALSE, level |-> "WARNING", handlers |-> <<>>]

NoLogCall == [op |-> "none", args |-> "none", pre |-> LogStart, raised |-> FALSE]

\* =================================================================== state
VARIABLES
    cfg,          \* parameters of the run: window, consecutive_count, ...
    bars,         \* the bar series the pipeline was last run on
    swings,       \* detect_swings(bars)
    structure,    \* classify_swings_v2 columns
    steps,        \* classify_swings_v2 event loop, one entry per event
    climax,       \* detect_climax_reversal columns
    consecutive,  \* detect_consecutive_reversal columns
    merged,       \* merge_structure_with_events columns
    outcome,      \* how the last call ended: returned or the exception raised
    cls,          \* classifier loop: state after the events processed so far
    event,        \* classifier loop: the event last processed
    recent,       \* classifier loop: price of the most recent swing per side
    frames,       \* fusion scan: which event frames are passed (not None)
    seen,         \* fusion scan: an override was met in the rows so far
    row,          \* fusion scan: the row last processed
    runA,         \* fusion scan on input A
    runB,         \* fusion scan on input B, equal to A on the rows so far
    log,          \* logging: the _configured flag and the root logger
    call          \* logging: the call last made, its arguments and the state before

pipeVars == <<cfg, bars, swings, structure, steps, climax, consecutive, merged,
              outcome>>
loopVars == <<cls, event, recent>>
scanVars == <<frames, seen, row, runA, runB>>
logVars == <<log, call>>
vars == <<cfg, bars, swings, structure, steps, climax, consecutive, merged,
          outcome, cls, event, recent, frames, seen, row, runA, runB,
          log, call>>

\* Parameters of a run.  The swing-only runs draw the window from
\* 1..MaxWindow; the full pipeline runs with window 1 and the smallest
\* consecutive_count the configuration accepts.
SwingConfigs ==
    [window : 1..MaxWindow, consecutive_count : {2},
     atr_num : {1}, atr_den : {1}, lookback : {2}]
Configs == {c \in SwingConfigs : c.window = 1}

\* bars of the swing-only runs: open and close play no part there
SwingBarSet == {b \in BarSet : b = NaNBar \/ b.open = b.low}

\* the row before the first one: nothing seen, nothing emitted; tick
\* alternates from row to row
NoRow == [tick |-> 0, high |-> NaN, low |-> NaN,
          major_high |-> NaN, major_low |-> NaN,
          override_high_price |-> NaN, override_low_price |-> NaN,
          cx |-> NoClimax, cs |-> NoConsec]

\* A run of merge_structure_with_events: any_override is the outcome of
\* the test "is there any override in the whole input" (reversals.py 214)
\* that selects between the early return and the scan.  gap_high/gap_low
\* count (up to 2) the rows since the side's level was last reported,
\* 0 while it is reported or was never reported.
RunInit(any) == [any_override |-> any, st |-> FuseInit,
                 adjusted_major_high |-> NaN, adjusted_major_low |-> NaN,
                 gap_high |-> 0, gap_low |-> 0]

\* no logging call made yet
LogIdle == log = LogStart /\ call = NoLogCall


PipeIdle ==
    /\ bars = <<>> /\ swings = <<>> /\ structure = <<>> /\ steps = <<>>
    /\ climax = <<>> /\ consecutive = <<>> /\ merged = <<>>
    /\ outcome = "idle"

\* no event processed yet; pre is the loop state the event was applied to,
\* run_len the number of LOW events since the last HIGH event whose prices
\* fell strictly from one to the next, run_high0 the active_major_high
\* before the first of them
NoEvent == [n |-> 0, kind |-> "none", price |-> NaN, pre |-> V2Init(<<>>),
            run_len |-> 0, run_high0 |-> NaN]

LoopIdle ==
    /\ cls = V2Init(<<>>)
    /\ event = NoEvent
    /\ recent = [high |-> NaN, low |-> NaN]

ScanIdle ==
    /\ frames = [climax |-> FALSE, consecutive |-> FALSE]
    /\ seen = FALSE /\ row = NoRow
    /\ runA = RunInit(FALSE) /\ runB = RunInit(FALSE)

\* ------------------------------------------- swing detection + classifier
InitSwing ==
    /\ cfg \in SwingConfigs
    /\ PipeIdle
    /\ LogIdle
    /\ LoopIdle
    /\ ScanIdle

\* detect_swings -> classify_swings_v2 run on the series extended by a bar
RunSwings(b) ==
    /\ Len(bars) < MaxLen
    /\ bars' = Append(bars, b)
    /\ swings' = detect_swings(bars', cfg.window)
    /\ steps' = V2Steps(bars', swings')
    /\ structure' = classify_swings_v2(bars', swings')
    /\ outcome' = detect_swings_outcome(bars', cfg.window)
    /\ UNCHANGED logVars /\ UNCHANGED <<cfg, climax, consecutive, merged>>
    /\ UNCHANGED loopVars /\ UNCHANGED scanVars

SwingBar == \E b \in SwingBarSet \ {NaNBar} : RunSwings(b)
SwingMissingBar == RunSwings(NaNBar)

NextSwing == SwingBar \/ SwingMissingBar

SpecSwing == InitSwing /\ [][NextSwing]_vars

\* --------------------------------------- detect_swings called on its own
\* detect_swings with any window, the values below 1 included, on any
\* frame, the empty one included.
CallConfigs ==
    [window : (0 - MaxWindow)..MaxWindow, consecutive_count : {2},
     atr_num : {1}, atr_den : {1}, lookback : {2}]

InitCall ==
    /\ cfg \in CallConfigs
    /\ PipeIdle
    /\ LogIdle
    /\ LoopIdle
    /\ ScanIdle

\* the call on frame bs: the swing columns when it returns, none otherwise
CallSwings(bs) ==
    /\ bars' = bs
    /\ outcome' = detect_swings_outcome(bs, cfg.window)
    /\ swings' = IF outcome' = "returned" THEN detect_swings(bs, cfg.window)
                 ELSE <<>>
    /\ UNCHANGED logVars /\ UNCHANGED <<cfg, structure, steps, climax, consecutive, merged>>
    /\ UNCHANGED loopVars /\ UNCHANGED scanVars

CallEmpty == outcome = "idle" /\ CallSwings(<<>>)

CallBar ==
    \E b \in SwingBarSet \ {NaNBar} :
        Len(bars) < MaxLen /\ CallSwings(Append(bars, b))

CallMissingBar == Len(bars) < MaxLen /\ CallSwings(Append(bars, NaNBar))

NextCall == CallEmpty \/ CallBar \/ CallMissingBar

SpecCall == InitCall /\ [][NextCall]_vars

\* ------------------------------------- classifier event loop, step by step
\* classify_swings_v2 on a frame whose swing columns hold any events: the
\* loop state starts from the first valid high and low of the frame and
\* one event is processed per step (a bar with both flags gives its HIGH
\* event and then its LOW event).
InitLoop ==
    /\ cfg \in Configs
    /\ PipeIdle
    /\ LogIdle
    /\ ScanIdle
    /\ \E b \in SwingBarSet \ {NaNBar} : cls = V2Init(<<b>>)
    /\ event = NoEvent
    /\ recent = [high |-> NaN, low |-> NaN]

ProcessHigh(p) ==
        /\ event.n < MaxEvents
        /\ cls' = V2High(cls, p)
        /\ event' = [n |-> event.n + 1, kind |-> "high", price |-> p,
                      pre |-> cls, run_len |-> 0, run_high0 |-> NaN]
        /\ recent' = [recent EXCEPT !.high = p]
        /\ UNCHANGED logVars /\ UNCHANGED pipeVars /\ UNCHANGED scanVars

ProcessLow(p) ==
        /\ event.n < MaxEvents
        /\ cls' = V2Low(cls, p)
        /\ event' = [n |-> event.n + 1, kind |-> "low", price |-> p,
                      pre |-> cls,
                      run_len |-> IF event.kind = "low" /\ p < event.price
                                  THEN event.run_len + 1 ELSE 1,
                      run_high0 |-> IF event.kind = "low" /\ p < event.price
                                    THEN event.run_high0
                                    ELSE cls.active_major_high]
        /\ recent' = [recent EXCEPT !.low = p]
        /\ UNCHANGED logVars /\ UNCHANGED pipeVars /\ UNCHANGED scanVars

HighEvent == \E p \in Prices : ProcessHigh(p)
LowEvent == \E p \in Prices : ProcessLow(p)

NextLoop == HighEvent \/ LowEvent

SpecLoop == InitLoop /\ [][NextLoop]_vars

\* ------------------------------------- classifier event loop, close prices
\* The same loop on swings whose prices lie within a few ticks of each
\* other around LabelBase, where one tick is half the tolerance: two ticks
\* from LabelBase is exactly the tolerance boundary.
LabelBase == 2 * TolDen
LabelPrices == (LabelBase - LabelSpread)..(LabelBase + LabelSpread)

InitLabel ==
    /\ cfg \in Configs
    /\ PipeIdle
    /\ LogIdle
    /\ ScanIdle
    /\ \E h \in LabelPrices, l \in LabelPrices :
          /\ l <= h
          /\ cls = V2Init(<<[open |-> l, high |-> h, low |-> l, close |-> h]>>)
    /\ event = NoEvent
    /\ recent = [high |-> NaN, low |-> NaN]

LabelHigh == \E p \in LabelPrices : ProcessHigh(p)
LabelLow == \E p \in LabelPrices : ProcessLow(p)

NextLabel == LabelHigh \/ LabelLow

SpecLabel == InitLabel /\ [][NextLabel]_vars

\* ------------------------------------------------ fusion, row by row
\* merge_structure_with_events on any structure frame and event frames.
\* Two inputs A and B are processed side by side; they hold the same rows
\* up to the current one and may differ later, so each has its own outcome
\* of the "any override" test: B holds an override somewhere whenever an
\* event frame is passed, A may hold none.  A row that carries an override
\* is part of both inputs, hence both then pass the test.
ClimaxRow(top, bottom) ==
    [is_climax_top |-> NotNa(top), is_climax_bottom |-> NotNa(bottom),
     climax_top_price |-> top, climax_bottom_price |-> bottom]

ConsecRow(top, bottom) ==
    [consecutive_bear_start |-> NotNa(top), consecutive_bull_start |-> NotNa(bottom),
     consecutive_top_price |-> top, consecutive_bottom_price |-> bottom]

MkRow(h, l, mh, ml, cx, cs) ==
    [tick |-> 1 - row.tick, high |-> h, low |-> l,
     major_high |-> mh, major_low |-> ml,
     override_high_price |-> override_high_price(cx, cs),
     override_low_price |-> override_low_price(cx, cs),
     cx |-> cx, cs |-> cs]

Gap(prev_adj, adj, gap) ==
    IF NotNa(adj) THEN 0
    ELSE IF NotNa(prev_adj) THEN 1
    ELSE IF gap > 0 THEN 2
    ELSE 0

\* the adjusted columns of row r: the raw columns on the early return
\* (reversals.py 175-176, 214-215), else one iteration of the scan
RunRow(run, r) ==
    LET s2 == IF run.any_override THEN FuseStep(run.st, r) ELSE run.st
        ah == IF run.any_override THEN Emit(s2.curr_high) ELSE r.major_high
        al == IF run.any_override THEN Emit(s2.curr_low) ELSE r.major_low
    IN [any_override |-> run.any_override, st |-> s2,
        adjusted_major_high |-> ah, adjusted_major_low |-> al,
        gap_high |-> Gap(run.adjusted_major_high, ah, run.gap_high),
        gap_low |-> Gap(run.adjusted_major_low, al, run.gap_low)]

HasOverride(r) == NotNa(r.override_high_price) \/ NotNa(r.override_low_price)

InitScan ==
    /\ cfg \in Configs
    /\ PipeIdle
    /\ LogIdle
    /\ LoopIdle
    /\ frames \in [climax : BOOLEAN, consecutive : BOOLEAN]
    /\ seen = FALSE
    /\ row = NoRow
    /\ \E a \in BOOLEAN :
          /\ a => (frames.climax \/ frames.consecutive)
          /\ runA = RunInit(a)
          /\ runB = RunInit(frames.climax \/ frames.consecutive)

Feed(r) ==
    /\ HasOverride(r) => (runA.any_override /\ runB.any_override)
    /\ row' = r
    /\ seen' = (seen \/ HasOverride(r))
    /\ runA' = RunRow(runA, r)
    /\ runB' = RunRow(runB, r)
    /\ UNCHANGED frames
    /\ UNCHANGED logVars /\ UNCHANGED pipeVars /\ UNCHANGED loopVars

\* prices and raw levels of the rows
RowPrices == 1..MaxLevel
RowLevels == RowPrices \cup {NaN}

\* event prices a passed frame can hold on a row (NaN: flag not set)
ClimaxPrices == IF frames.climax THEN RowLevels ELSE {NaN}
ConsecPrices == IF frames.consecutive THEN RowLevels ELSE {NaN}

\* a row whose high side is free: bar high, raw major_high, top events
HighSideRow ==
    \E h \in RowPrices, l \in RowPrices, mh \in RowLevels :
      \E ct \in ClimaxPrices, st \in ConsecPrices :
        /\ l <= h
        /\ Feed(MkRow(h, l, mh, row.major_low,
                      ClimaxRow(ct, NaN), ConsecRow(st, NaN)))

\* a row whose low side is free: bar low, raw major_low, bottom events
LowSideRow ==
    \E h \in RowPrices, l \in RowPrices, ml \in RowLevels :
      \E cb \in ClimaxPrices, sb \in ConsecPrices :
        /\ l <= h
        /\ Feed(MkRow(h, l, row.major_high, ml,
                      ClimaxRow(NaN, cb), ConsecRow(NaN, sb)))

\* a missing bar: no prices, no events, raw levels carried forward
MissingRow ==
    Feed(MkRow(NaN, NaN, row.major_high, row.major_low, NoClimax, NoConsec))

NextScan == HighSideRow \/ LowSideRow \/ MissingRow

SpecScan == InitScan /\ [][NextScan]_vars

\* ------------------------------------- the two reversal detectors alone
\* Both detectors are pure scans of the raw bars (reversals.py 12-151); they
\* are run on a growing series whose bars may gap away from the previous
\* close.  Two configurations: the smallest run length with multiplier 1,
\* and run length 3 with the default multiplier 2.
RevPrices == 1..RevMaxPrice

RevBarSet ==
    {b \in [open : RevPrices, high : RevPrices, low : RevPrices, close : RevPrices] :
        /\ b.low <= b.high
        /\ \/ (b.open = b.low /\ b.close = b.high)
           \/ (b.open = b.high /\ b.close = b.low)} \cup {NaNBar}

ReversalConfigs ==
    {[window |-> 1, consecutive_count |-> 2, atr_num |-> 1, atr_den |-> 1,
      lookback |-> 2],
     [window |-> 1, consecutive_count |-> 3, atr_num |-> 2, atr_den |-> 1,
      lookback |-> 3]}

InitReversal ==
    /\ cfg \in ReversalConfigs
    /\ PipeIdle
    /\ LogIdle
    /\ LoopIdle
    /\ ScanIdle

RunDetectors(b) ==
    /\ Len(bars) < RevMaxLen
    /\ bars' = Append(bars, b)
    /\ climax' = detect_climax_reversal(bars', cfg.atr_num, cfg.atr_den, cfg.lookback)
    /\ consecutive' = detect_consecutive_reversal(bars', cfg.consecutive_count)
    /\ outcome' = "returned"
    /\ UNCHANGED logVars /\ UNCHANGED <<cfg, swings, structure, steps, merged>>
    /\ UNCHANGED loopVars /\ UNCHANGED scanVars

ReversalBar == \E b \in RevBarSet \ {NaNBar} : RunDetectors(b)
ReversalMissingBar == RunDetectors(NaNBar)

NextReversal == ReversalBar \/ ReversalMissingBar

SpecReversal == InitReversal /\ [][NextReversal]_vars

\* ------------------------------------- both detectors, shortest runs
\* The detectors on the same growing frames with consecutive_count 1 and 2:
\* the function accepts any count, and with count 1 every first bar of a
\* run after the first row is flagged.
SideConfigs ==
    {[window |-> 1, consecutive_count |-> 1, atr_num |-> 1, atr_den |-> 1,
      lookback |-> 2],
     [window |-> 1, consecutive_count |-> 2, atr_num |-> 1, atr_den |-> 1,
      lookback |-> 2]}

InitSides ==
    /\ cfg \in SideConfigs
    /\ PipeIdle
    /\ LogIdle
    /\ LoopIdle
    /\ ScanIdle

SpecSides == InitSides /\ [][NextReversal]_vars

\* ------------------------------------- direct-overwrite classifier loop
\* classify_swings (swings.py 98-160): the loop state before the first
\* event, and one iteration per confirmed swing.  Every event overwrites
\* its side's level; the row written at the event's bar is kept in
\* event.row.
V1Init == [last_h_price |-> NegInf, last_l_price |-> PosInf,
           current_major_high |-> NaN, current_major_low |-> NaN,
           label |-> "none"]

\* variant: the level is replaced only by a swing beyond it
V1HighGated(st, curr_price) ==
    [st EXCEPT !.label = classify_swing_high(curr_price, st.last_h_price),
               !.last_h_price = curr_price,
               !.current_major_high =
                   IF IsNaN(st.current_major_high) \/ curr_price > st.current_major_high
                   THEN curr_price ELSE st.current_major_high]

V1High(st, curr_price) ==
    [st EXCEPT !.label = classify_swing_high(curr_price, st.last_h_price),
               !.last_h_price = curr_price,
               !.current_major_high = curr_price]

V1Low(st, curr_price) ==
    [st EXCEPT !.label = classify_swing_low(curr_price, st.last_l_price),
               !.last_l_price = curr_price,
               !.current_major_low = curr_price]

V1Row(st) == [swing_type |-> st.label, major_high |-> st.current_major_high,
              major_low |-> st.current_major_low]

\* classify_swings on a frame: the loop over the merged events, the rows
\* it writes (a later write on the same row wins) and the two fills
RECURSIVE V1Loop(_, _, _, _)
V1Loop(st, events, sw, done) ==
    IF events = <<>> THEN done
    ELSE LET e == Head(events)
             post == IF e.kind = "high"
                     THEN V1High(st, sw[e.idx].swing_high_price)
                     ELSE V1Low(st, sw[e.idx].swing_low_price)
         IN V1Loop(post, Tail(events), sw,
                   Append(done, [idx |-> e.idx, kind |-> e.kind,
                                  pre |-> st, post |-> post]))

V1Steps(sw) ==
    V1Loop(V1Init,
           merge_sorted_events(
               IndexList([i \in 1..Len(sw) |-> sw[i].swing_high_confirmed], 1),
               IndexList([i \in 1..Len(sw) |-> sw[i].swing_low_confirmed], 1)),
           sw, <<>>)

classify_swings(bs, sw) ==
    LET v1 == V1Steps(sw)
        at(i) == LastStepAt(v1, i)
        mh == Ffill([i \in 1..Len(bs) |->
                       IF at(i) = 0 THEN NaN
                       ELSE v1[at(i)].post.current_major_high], 1, NaN)
        ml == Ffill([i \in 1..Len(bs) |->
                       IF at(i) = 0 THEN NaN
                       ELSE v1[at(i)].post.current_major_low], 1, NaN)
    IN [i \in 1..Len(bs) |->
          [swing_type |-> IF at(i) = 0 THEN "none" ELSE v1[at(i)].post.label,
           major_high |-> mh[i],
           major_low |-> ml[i]]]


InitDirect ==
    /\ cfg \in Configs
    /\ PipeIdle
    /\ LogIdle
    /\ ScanIdle
    /\ cls = V1Init
    /\ event = [n |-> 0, kind |-> "none", price |-> NaN, pre |-> V1Init,
                row |-> V1Row(V1Init)]
    /\ recent = [high |-> NaN, low |-> NaN]

DirectHigh(p) ==
    /\ event.n < MaxEvents
    /\ cls' = V1High(cls, p)
    /\ event' = [n |-> event.n + 1, kind |-> "high", price |-> p,
                 pre |-> cls, row |-> V1Row(cls')]
    /\ recent' = [recent EXCEPT !.high = p]
    /\ UNCHANGED logVars /\ UNCHANGED pipeVars /\ UNCHANGED scanVars

DirectLow(p) ==
    /\ event.n < MaxEvents
    /\ cls' = V1Low(cls, p)
    /\ event' = [n |-> event.n + 1, kind |-> "low", price |-> p,
                 pre |-> cls, row |-> V1Row(cls')]
    /\ recent' = [recent EXCEPT !.low = p]
    /\ UNCHANGED logVars /\ UNCHANGED pipeVars /\ UNCHANGED scanVars

DirectHighEvent == \E p \in Prices : DirectHigh(p)
DirectLowEvent == \E p \in Prices : DirectLow(p)

NextDirect == DirectHighEvent \/ DirectLowEvent

SpecDirect == InitDirect /\ [][NextDirect]_vars

\* ------------------------------- swing detection + close-based classifier
\* bars whose close may lie anywhere between low and high (open plays no
\* part in classify_swings_v3)
V3BarSet ==
    {b \in [open : Prices, high : Prices, low : Prices, close : Prices] :
        /\ b.low <= b.close /\ b.close <= b.high
        /\ b.open = b.low} \cup {NaNBar}

InitClose ==
    /\ cfg \in SwingConfigs
    /\ PipeIdle
    /\ LogIdle
    /\ LoopIdle
    /\ ScanIdle

\* detect_swings -> classify_swings_v3 run on the series extended by a bar
RunClose(b) ==
    /\ Len(bars) < V3MaxLen
    /\ bars' = Append(bars, b)
    /\ swings' = detect_swings(bars', cfg.window)
    /\ steps' = V3Steps(bars', swings', cfg.window)
    /\ structure' = classify_swings_v3(bars', swings', cfg.window)
    /\ outcome' = detect_swings_outcome(bars', cfg.window)
    /\ UNCHANGED logVars /\ UNCHANGED <<cfg, climax, consecutive, merged>>
    /\ UNCHANGED loopVars /\ UNCHANGED scanVars

CloseBar == \E b \in V3BarSet \ {NaNBar} : RunClose(b)
CloseMissingBar == RunClose(NaNBar)

NextClose == CloseBar \/ CloseMissingBar

SpecClose == InitClose /\ [][NextClose]_vars

\* ------------------------------------------------ the pipeline run twice
\* Every stage works on a copy of its input (df.copy(), swings.py 55, 185;
\* reversals.py 35, 111, 173) and starts its loop from freshly assigned
\* locals (swings.py 192-204, reversals.py 217-221).  cls keeps the state the
\* classifier loop of the last run ended in.
V2Final(bs, sw) ==
    LET st == V2Steps(bs, sw)
    IN IF st = <<>> THEN V2Init(bs) ELSE st[Len(st)].post

InitRerun ==
    /\ cfg \in Configs
    /\ PipeIdle
    /\ LogIdle
    /\ LoopIdle
    /\ ScanIdle

RunAll(bs, tag) ==
    /\ bars' = bs
    /\ swings' = detect_swings(bs, cfg.window)
    /\ structure' = classify_swings_v2(bs, swings')
    /\ climax' = detect_climax_reversal(bs, cfg.atr_num, cfg.atr_den, cfg.lookback)
    /\ consecutive' = detect_consecutive_reversal(bs, cfg.consecutive_count)
    /\ merged' = merge_structure_with_events(
                     FuseRows(bs, structure', climax', consecutive'))
    /\ cls' = V2Final(bs, swings')
    /\ outcome' = tag
    /\ UNCHANGED logVars /\ UNCHANGED <<cfg, steps, event, recent>>
    /\ UNCHANGED scanVars

\* a run on a new input: the series extended by a bar
FirstRun ==
    /\ Len(bars) < RerunMaxLen
    /\ \E b \in BarSet : RunAll(Append(bars, b), "run")

\* variant: the classifier loop of the second run goes on from the state
\* the first run ended in
SecondRunCarried ==
    /\ outcome = "run"
    /\ bars' = bars
    /\ swings' = detect_swings(bars, cfg.window)
    /\ LET steps2 == V2Loop(cls,
                       merge_sorted_events(
                         IndexList([i \in 1..Len(swings') |->
                                      swings'[i].swing_high_confirmed], 1),
                         IndexList([i \in 1..Len(swings') |->
                                      swings'[i].swing_low_confirmed], 1)),
                       swings', <<>>)
           at(i) == LastStepAt(steps2, i)
           mh == Ffill([i \in 1..Len(bars) |->
                          IF at(i) = 0 THEN NaN
                          ELSE steps2[at(i)].post.active_major_high], 1, NaN)
           ml == Ffill([i \in 1..Len(bars) |->
                          IF at(i) = 0 THEN NaN
                          ELSE steps2[at(i)].post.active_major_low], 1, NaN)
       IN /\ structure' =
                [i \in 1..Len(bars) |->
                   [swing_type |-> IF at(i) = 0 THEN "none"
                                   ELSE steps2[at(i)].post.label,
                    major_high |-> mh[i],
                    major_low |-> ml[i],
                    trend_bias |-> IF at(i) = 0 THEN 0
                                   ELSE steps2[at(i)].post.curr_bias]]
          /\ cls' = IF steps2 = <<>> THEN cls ELSE steps2[Len(steps2)].post
    /\ climax' = detect_climax_reversal(bars, cfg.atr_num, cfg.atr_den, cfg.lookback)
    /\ consecutive' = detect_consecutive_reversal(bars, cfg.consecutive_count)
    /\ merged' = merge_structure_with_events(
                     FuseRows(bars, structure', climax', consecutive'))
    /\ outcome' = "rerun"
    /\ UNCHANGED logVars /\ UNCHANGED <<cfg, steps, event, recent>>
    /\ UNCHANGED scanVars

\* the same input run again
SecondRun ==
    /\ outcome = "run"
    /\ RunAll(bars, "rerun")

NextRerun == FirstRun \/ SecondRun

SpecRerun == InitRerun /\ [][NextRerun]_vars

\* ------------------------------------------- merge_sorted_events alone
\* The callers pass df.index[mask].tolist() (swings.py 129-132, 205-207):
\* bar positions in ascending order.  The two lists grow bar by bar, each
\* bar flagged as swing high, swing low, both or neither, and the merge is
\* applied to them; event holds the arguments, steps the returned list.
NoCall == [n |-> 0, high_indices |-> <<>>, low_indices |-> <<>>]

InitMerge ==
    /\ cfg \in Configs
    /\ PipeIdle
    /\ LogIdle
    /\ ScanIdle
    /\ cls = V2Init(<<>>)
    /\ recent = [high |-> NaN, low |-> NaN]
    /\ event = NoCall

MergeCall(is_high, is_low) ==
    /\ event.n < MergeMaxIdx
    /\ LET i == event.n + 1
           hs == IF is_high THEN Append(event.high_indices, i)
                 ELSE event.high_indices
           ls == IF is_low THEN Append(event.low_indices, i)
                 ELSE event.low_indices
       IN /\ event' = [n |-> i, high_indices |-> hs, low_indices |-> ls]
          /\ steps' = merge_sorted_events(hs, ls)
    /\ outcome' = "returned"
    /\ UNCHANGED logVars /\ UNCHANGED <<cfg, bars, swings, structure, climax, consecutive, merged>>
    /\ UNCHANGED <<cls, recent>> /\ UNCHANGED scanVars

MergeHighBar == MergeCall(TRUE, FALSE)
MergeLowBar == MergeCall(FALSE, TRUE)
MergeBothBar == MergeCall(TRUE, TRUE)
MergePlainBar == MergeCall(FALSE, FALSE)

NextMerge == MergeHighBar \/ MergeLowBar \/ MergeBothBar \/ MergePlainBar

SpecMerge == InitMerge /\ [][NextMerge]_vars

\* ---------------------------------------------------- logging calls
InitLogging ==
    /\ cfg \in Configs
    /\ PipeIdle
    /\ LogIdle
    /\ LoopIdle
    /\ ScanIdle

Configure ==
    \E a \in LogArgs :
        /\ log' = configure_logging(log, a)
        /\ call' = [op |-> "configure_logging", args |-> a, pre |-> log,
                    raised |-> FALSE]
        /\ UNCHANGED pipeVars /\ UNCHANGED loopVars /\ UNCHANGED scanVars

ConfigureFileError ==
    \E a \in LogArgs :
        /\ ~log.configured
        /\ a.log_to_file
        /\ log' = configure_logging_raises(log, a)
        /\ call' = [op |-> "configure_logging", args |-> a, pre |-> log,
                    raised |-> TRUE]
        /\ UNCHANGED pipeVars /\ UNCHANGED loopVars /\ UNCHANGED scanVars

Reset ==
    /\ log' = reset_logging(log)
    /\ call' = [op |-> "reset_logging", args |-> "none", pre |-> log,
                raised |-> FALSE]
    /\ UNCHANGED pipeVars /\ UNCHANGED loopVars /\ UNCHANGED scanVars

NextLogging == Configure \/ ConfigureFileError \/ Reset

SpecLogging == InitLogging /\ [][NextLogging]_vars

\* ---------------------------------------------------------------- pipeline
Init ==
    /\ cfg \in Configs
    /\ PipeIdle
    /\ LogIdle
    /\ LoopIdle
    /\ ScanIdle

\* The pipeline is run on the series extended by one bar:
\* detect_swings -> classify_swings_v2, the two reversal detectors on the
\* raw bars, then merge_structure_with_events.
RunPipeline(b) ==
    /\ Len(bars) < MaxLen
    /\ bars' = Append(bars, b)
    /\ swings' = detect_swings(bars', cfg.window)
    /\ structure' = classify_swings_v2(bars', swings')
    /\ climax' = detect_climax_reversal(bars', cfg.atr_num, cfg.atr_den, cfg.lookback)
    /\ consecutive' = detect_consecutive_reversal(bars', cfg.consecutive_count)
    /\ merged' = merge_structure_with_events(
                     FuseRows(bars', structure', climax', consecutive'))
    /\ outcome' = detect_swings_outcome(bars', cfg.window)
    /\ UNCHANGED logVars /\ UNCHANGED <<cfg, steps>>
    /\ UNCHANGED loopVars /\ UNCHANGED scanVars

AppendBar == \E b \in BarSet \ {NaNBar} : RunPipeline(b)
AppendMissingBar == RunPipeline(NaNBar)

Next == AppendBar \/ AppendMissingBar

Spec == Init /\ [][Next]_vars

\* ================================================================= claims
\* Bar a is a local maximum (minimum) of its window: its high (low) is
\* present and no present high (low) at a-w..a+w is above (below) it.
LocalMaxAt(a, w) ==
    /\ a >= 1 /\ a <= Len(bars)
    /\ NotNa(bars[a].high)
    /\ \A j \in (a - w)..(a + w) :
          (j >= 1 /\ j <= Len(bars) /\ NotNa(bars[j].high))
              => bars[j].high <= bars[a].high

LocalMinAt(a, w) ==
    /\ a >= 1 /\ a <= Len(bars)
    /\ NotNa(bars[a].low)
    /\ \A j \in (a - w)..(a + w) :
          (j >= 1 /\ j <= Len(bars) /\ NotNa(bars[j].low))
              => bars[j].low >= bars[a].low

\* C1: a swing high (low) is confirmed at bar t only when bar t-window is a
\* local maximum (minimum) of its window whose left neighbour is not one
\* (the first bar of a flat run), and the price reported at t is then the
\* high (low) of bar t-window; bars without a confirmation carry no price.
C1_ConfirmAtAnchorPlusWindow ==
    \A t \in 1..Len(swings) :
        LET w == cfg.window
            a == t - w
        IN /\ swings[t].swing_high_confirmed =>
                 /\ a >= 1
                 /\ LocalMaxAt(a, w)
                 /\ ~LocalMaxAt(a - 1, w)
                 /\ swings[t].swing_high_price = bars[a].high
           /\ swings[t].swing_low_confirmed =>
                 /\ a >= 1
                 /\ LocalMinAt(a, w)
                 /\ ~LocalMinAt(a - 1, w)
                 /\ swings[t].swing_low_price = bars[a].low
           /\ ~swings[t].swing_high_confirmed => IsNaN(swings[t].swing_high_price)
           /\ ~swings[t].swing_low_confirmed => IsNaN(swings[t].swing_low_price)

\* the scenario "highs 1,2,3,2,1 with window 2": bar 3 confirms at bar 5
C1_Witness ==
    /\ cfg.window = 2
    /\ Len(bars) = 5
    /\ Highs(bars) = <<1, 2, 3, 2, 1>>
    /\ swings[5].swing_high_confirmed
    /\ swings[5].swing_high_price = 3
    /\ \A t \in 1..4 : ~swings[t].swing_high_confirmed

C3_NeverRevised ==
    /\ runA.adjusted_major_high = runB.adjusted_major_high
    /\ runA.adjusted_major_low = runB.adjusted_major_low

\* C4: a row whose high is above the high level reported on the row before,
\* with the raw major_high unchanged and no high-side override, reports no
\* adjusted_major_high; the same for a low below the reported low level.
C4_BreakRule ==
    [][/\ (/\ NotNa(runA.adjusted_major_high)
           /\ Gt(row'.high, runA.adjusted_major_high)
           /\ row'.major_high = row.major_high
           /\ IsNaN(row'.override_high_price))
              => IsNaN(runA'.adjusted_major_high)
       /\ (/\ NotNa(runA.adjusted_major_low)
           /\ Lt(row'.low, runA.adjusted_major_low)
           /\ row'.major_low = row.major_low
           /\ IsNaN(row'.override_low_price))
              => IsNaN(runA'.adjusted_major_low)]_vars

\* C5: while an adjusted level keeps being reported with the same value,
\* no row's high is above the adjusted high and no row's low is below the
\* adjusted low.
C5_NeverExceeded ==
    [][/\ (/\ NotNa(runA.adjusted_major_high)
           /\ runA'.adjusted_major_high = runA.adjusted_major_high)
              => ~Gt(row'.high, runA'.adjusted_major_high)
       /\ (/\ NotNa(runA.adjusted_major_low)
           /\ runA'.adjusted_major_low = runA.adjusted_major_low)
              => ~Lt(row'.low, runA'.adjusted_major_low)]_vars

\* C6: a side whose adjusted level is absent on a row stays absent on the
\* next row unless the raw major level of that side changes on it or an
\* override for that side fires on it.
C6_StaysBroken ==
    [][/\ (/\ IsNaN(runA.adjusted_major_high)
           /\ row'.major_high = row.major_high
           /\ IsNaN(row'.override_high_price))
              => IsNaN(runA'.adjusted_major_high)
       /\ (/\ IsNaN(runA.adjusted_major_low)
           /\ row'.major_low = row.major_low
           /\ IsNaN(row'.override_low_price))
              => IsNaN(runA'.adjusted_major_low)]_vars

\* the high level was reported, then broken, and is still absent one row
\* later although the raw major_high is present: that row neither changed
\* the raw level nor carried an override
C6_Witness ==
    /\ runA.any_override
    /\ runA.gap_high = 2
    /\ NotNa(row.major_high)
    /\ NotNa(row.high)
    /\ IsNaN(row.override_high_price)
    /\ IsNaN(runA.adjusted_major_high)

\* the raw level of bar i differs from the one of the bar before it
RawHighChanged(i) ==
    IF i = 1 THEN NotNa(structure[1].major_high)
    ELSE structure[i].major_high # structure[i - 1].major_high

RawLowChanged(i) ==
    IF i = 1 THEN NotNa(structure[1].major_low)
    ELSE structure[i].major_low # structure[i - 1].major_low

\* C7 as stated: on every bar where a swing high (low) is confirmed and
\* classified, adjusted_major_high (adjusted_major_low) is present.
C7_SwingAlwaysReestablishes ==
    \A i \in 1..Len(merged) :
        /\ swings[i].swing_high_confirmed => NotNa(merged[i].adjusted_major_high)
        /\ swings[i].swing_low_confirmed => NotNa(merged[i].adjusted_major_low)

\* C7 amended: on every bar where the classifier changes the raw
\* major_high (major_low) to a present value, adjusted_major_high
\* (adjusted_major_low) is present, whether or not the level was broken
\* before.
C7_RawChangeReestablishes ==
    \A i \in 1..Len(merged) :
        /\ (RawHighChanged(i) /\ NotNa(structure[i].major_high))
              => NotNa(merged[i].adjusted_major_high)
        /\ (RawLowChanged(i) /\ NotNa(structure[i].major_low))
              => NotNa(merged[i].adjusted_major_low)

\* a high level that was broken (raw level present, adjusted level absent)
\* is present again on the next bar, where a swing high is confirmed and
\* the raw major_high changes
C7_Witness ==
    \E i \in 2..Len(merged) :
        /\ NotNa(structure[i - 1].major_high)
        /\ IsNaN(merged[i - 1].adjusted_major_high)
        /\ swings[i].swing_high_confirmed
        /\ RawHighChanged(i)
        /\ NotNa(merged[i].adjusted_major_high)

\* C8: on a row with a high-side override o, the active high after the
\* break and the structural update is replaced by o when it is absent or
\* o is strictly lower, and kept otherwise; o is the lower of the climax
\* and the consecutive price when both fire.  Low side: absent or strictly
\* higher, and the higher of the two prices.
C8_OverrideTightening ==
    [][LET st == runA.st
           h1 == IF Gt(row'.high, st.curr_high) THEN PosInf ELSE st.curr_high
           h2 == IF row'.major_high # row.major_high /\ NotNa(row'.major_high)
                 THEN row'.major_high ELSE h1
           oh == row'.override_high_price
           l1 == IF Lt(row'.low, st.curr_low) THEN NegInf ELSE st.curr_low
           l2 == IF row'.major_low # row.major_low /\ NotNa(row'.major_low)
                 THEN row'.major_low ELSE l1
           ol == row'.override_low_price
       IN /\ (row'.cx.is_climax_top /\ row'.cs.consecutive_bear_start)
                => oh = Min2(row'.cx.climax_top_price,
                             row'.cs.consecutive_top_price)
          /\ (row'.cx.is_climax_top /\ ~row'.cs.consecutive_bear_start)
                => oh = row'.cx.climax_top_price
          /\ (~row'.cx.is_climax_top /\ row'.cs.consecutive_bear_start)
                => oh = row'.cs.consecutive_top_price
          /\ (row'.cx.is_climax_bottom /\ row'.cs.consecutive_bull_start)
                => ol = Max2(row'.cx.climax_bottom_price,
                             row'.cs.consecutive_bottom_price)
          /\ (row'.cx.is_climax_bottom /\ ~row'.cs.consecutive_bull_start)
                => ol = row'.cx.climax_bottom_price
          /\ (~row'.cx.is_climax_bottom /\ row'.cs.consecutive_bull_start)
                => ol = row'.cs.consecutive_bottom_price
          /\ NotNa(oh) =>
                runA'.adjusted_major_high =
                    IF h2 = PosInf \/ oh < h2 THEN oh ELSE h2
          /\ NotNa(ol) =>
                runA'.adjusted_major_low =
                    IF l2 = NegInf \/ ol > l2 THEN ol ELSE l2]_vars

\* both detectors fired for the high side with different prices on a row
\* that left a higher active level in place: the lower price was adopted
C8_Witness ==
    /\ row.cx.is_climax_top /\ row.cs.consecutive_bear_start
    /\ row.cx.climax_top_price > row.cs.consecutive_top_price
    /\ NotNa(row.major_high)
    /\ row.major_high > row.cs.consecutive_top_price
    /\ runA.adjusted_major_high = row.cs.consecutive_top_price

\* no reversal flag is set on any bar
NoEventFlag ==
    \A i \in 1..Len(bars) :
        /\ ~climax[i].is_climax_top /\ ~climax[i].is_climax_bottom
        /\ ~consecutive[i].consecutive_bear_start
        /\ ~consecutive[i].consecutive_bull_start

\* C9: when no reversal flag is set on any bar, the adjusted levels are the
\* raw levels on every bar.
C9_NoEventsIdentity ==
    NoEventFlag =>
        \A i \in 1..Len(merged) :
            /\ merged[i].adjusted_major_high = structure[i].major_high
            /\ merged[i].adjusted_major_low = structure[i].major_low

\* no flag is set and a bar's high is above the unchanged raw major_high
\* of the bar before it
C9_Witness ==
    /\ NoEventFlag
    /\ \E i \in 2..Len(merged) :
          /\ NotNa(structure[i - 1].major_high)
          /\ structure[i].major_high = structure[i - 1].major_high
          /\ Gt(bars[i].high, structure[i].major_high)
          /\ merged[i].adjusted_major_high = structure[i].major_high

\* C10: a HIGH event while the trend is BEAR, with a price above the active
\* major_high, flips the trend to BULL, sets major_low to the most recent
\* swing low and major_high to the event's price; a LOW event while BULL
\* with a price below the active major_low flips to BEAR, sets major_high
\* to the most recent swing high and major_low to the price.
C10_BearReversal ==
    /\ (event.kind = "high" /\ event.pre.curr_bias = -1
          /\ event.price > event.pre.active_major_high) =>
          /\ cls.curr_bias = 1
          /\ cls.active_major_high = event.price
          /\ cls.active_major_low = recent.low
    /\ (event.kind = "low" /\ event.pre.curr_bias = 1
          /\ event.price < event.pre.active_major_low) =>
          /\ cls.curr_bias = -1
          /\ cls.active_major_low = event.price
          /\ cls.active_major_high = recent.high

\* a BEAR trend was just reversed by a swing high above the active high
\* while the most recent swing low was not the low level in force
C10_Witness ==
    /\ event.kind = "high"
    /\ event.pre.curr_bias = -1
    /\ event.price > event.pre.active_major_high
    /\ recent.low # event.pre.active_major_low

\* C11: a HIGH event while the trend is BULL, with a price above the active
\* major_high, sets major_high to the price, keeps the trend BULL and
\* raises major_low to the most recent swing low only when that is
\* strictly above it (major_low is never lowered); a LOW event while BEAR
\* with a price below the active major_low sets major_low to the price,
\* keeps BEAR and lowers major_high to the most recent swing high only when
\* that is strictly below it.
C11_BullContinuation ==
    /\ (event.kind = "high" /\ event.pre.curr_bias = 1
          /\ event.price > event.pre.active_major_high) =>
          /\ cls.curr_bias = 1
          /\ cls.active_major_high = event.price
          /\ cls.active_major_low >= event.pre.active_major_low
          /\ cls.active_major_low =
                IF NotNa(recent.low) /\ recent.low > event.pre.active_major_low
                THEN recent.low ELSE event.pre.active_major_low
    /\ (event.kind = "low" /\ event.pre.curr_bias = -1
          /\ event.price < event.pre.active_major_low) =>
          /\ cls.curr_bias = -1
          /\ cls.active_major_low = event.price
          /\ cls.active_major_high <= event.pre.active_major_high
          /\ cls.active_major_high =
                IF NotNa(recent.high) /\ recent.high < event.pre.active_major_high
                THEN recent.high ELSE event.pre.active_major_high

\* a BULL trend was just continued by a swing high above the active high
\* and the low level was raised to a more recent, higher swing low
C11_Witness ==
    /\ event.kind = "high"
    /\ event.pre.curr_bias = 1
    /\ event.price > event.pre.active_major_high
    /\ NotNa(recent.low)
    /\ recent.low > event.pre.active_major_low
    /\ cls.active_major_low = recent.low

\* C12: during a run of LOW events with strictly decreasing prices and no
\* HIGH event in between, major_high is never above the value it had
\* before the run and no event of the run turns the trend to BULL.
C12_LowerLowsNeverFlip ==
    event.kind = "low" =>
        /\ cls.active_major_high <= event.run_high0
        /\ cls.curr_bias = 1 => event.pre.curr_bias = 1

\* the second of two falling swing lows turned a BULL trend to BEAR and
\* lowered major_high below the value it had before the run
C12_Witness ==
    /\ event.kind = "low"
    /\ event.run_len >= 2
    /\ event.pre.curr_bias = 1
    /\ cls.curr_bias = -1
    /\ cls.active_major_high < event.run_high0

\* the last event of the classifier loop at or before bar i (0: none)
LastEventUpTo(i) ==
    LET ks == {k \in 1..Len(steps) : steps[k].idx <= i}
    IN IF ks = {} THEN 0 ELSE CHOOSE k \in ks : \A j \in ks : j <= k

\* C13: on every bar at or after the first swing event, major_high,
\* major_low and trend_bias are the values the classifier state had right
\* after the most recent swing event at or before that bar.
C13_ForwardFilled ==
    \A i \in 1..Len(structure) :
        LET k == LastEventUpTo(i)
        IN k > 0 =>
              /\ structure[i].major_high = steps[k].post.active_major_high
              /\ structure[i].major_low = steps[k].post.active_major_low
              /\ structure[i].trend_bias = steps[k].post.curr_bias

\* C14: the events are processed in bar order, and when a swing high and a
\* swing low are confirmed on the same bar the HIGH event comes first: the
\* state after the bar is the low transition applied to the result of the
\* high transition.
C14_HighBeforeLow ==
    /\ \A k \in 1..(Len(steps) - 1) :
          /\ steps[k].idx <= steps[k + 1].idx
          /\ steps[k + 1].pre = steps[k].post
          /\ steps[k].idx = steps[k + 1].idx =>
                /\ steps[k].kind = "high"
                /\ steps[k + 1].kind = "low"
    /\ \A i \in 1..Len(swings) :
          (swings[i].swing_high_confirmed /\ swings[i].swing_low_confirmed) =>
              \E k \in 1..(Len(steps) - 1) :
                  /\ steps[k].idx = i /\ steps[k + 1].idx = i
                  /\ steps[k + 1].post =
                        V2Low(V2High(steps[k].pre, swings[i].swing_high_price),
                              swings[i].swing_low_price)

\* both swings are confirmed on one bar and the order matters: applying
\* the low transition first would have ended in another state
C14_Witness ==
    \E k \in 1..(Len(steps) - 1) :
        /\ steps[k].idx = steps[k + 1].idx
        /\ swings[steps[k].idx].swing_high_confirmed
        /\ swings[steps[k].idx].swing_low_confirmed
        /\ steps[k + 1].post #
              V2High(V2Low(steps[k].pre, swings[steps[k].idx].swing_low_price),
                     swings[steps[k].idx].swing_high_price)

\* the price difference is within the tolerance of the reference price
WithinTolerance(p, last) == Abs(p - last) * TolDen <= TolNum * last

\* C15: with a previous swing on the side as reference, a swing high is
\* DT exactly when its price is within tolerance of the previous swing
\* high (boundary included), otherwise HH when higher and LH when lower; a
\* swing low is DB exactly when within tolerance, otherwise LL when lower
\* and HL when higher.
C15_LabelRule ==
    /\ (event.kind = "high" /\ ~IsInf(event.pre.last_h_price)) =>
          LET p == event.price
              last == event.pre.last_h_price
          IN /\ cls.label \in {"DT", "HH", "LH"}
             /\ cls.label = "DT" <=> WithinTolerance(p, last)
             /\ cls.label = "HH" <=> (~WithinTolerance(p, last) /\ p > last)
             /\ cls.label = "LH" <=> (~WithinTolerance(p, last) /\ p < last)
    /\ (event.kind = "low" /\ ~IsInf(event.pre.last_l_price)) =>
          LET p == event.price
              last == event.pre.last_l_price
          IN /\ cls.label \in {"DB", "LL", "HL"}
             /\ cls.label = "DB" <=> WithinTolerance(p, last)
             /\ cls.label = "LL" <=> (~WithinTolerance(p, last) /\ p < last)
             /\ cls.label = "HL" <=> (~WithinTolerance(p, last) /\ p > last)

\* a swing high exactly at the tolerance boundary above the previous swing
\* high is labelled DT
C15_Witness ==
    /\ event.kind = "high"
    /\ ~IsInf(event.pre.last_h_price)
    /\ event.price > event.pre.last_h_price
    /\ (event.price - event.pre.last_h_price) * TolDen
          = TolNum * event.pre.last_h_price
    /\ cls.label = "DT"

\* C16: the first swing high processed is labelled HH and the first swing
\* low LL, whatever their prices.
C16_FirstSwingLabel ==
    /\ (event.kind = "high" /\ IsNaN(event.pre.candidate_major_high))
          => cls.label = "HH"
    /\ (event.kind = "low" /\ IsNaN(event.pre.candidate_major_low))
          => cls.label = "LL"

\* the first swing high comes after a swing low and lies below the high of
\* the first bar; it is labelled HH all the same
C16_Witness ==
    /\ event.kind = "high"
    /\ IsNaN(event.pre.candidate_major_high)
    /\ NotNa(event.pre.candidate_major_low)
    /\ event.price < event.pre.active_major_high
    /\ cls.label = "HH"

\* C17: in a series of at least 2*window+1 bars no confirmed swing has its
\* anchor among the first window bars or among the last window bars
\* (anchor = confirming bar - window; positions count from 1 here).
C17_EdgeBarsNeverConfirm ==
    Len(bars) >= 2 * cfg.window + 1 =>
        \A t \in 1..Len(swings) :
            (swings[t].swing_high_confirmed \/ swings[t].swing_low_confirmed) =>
                /\ t - cfg.window > cfg.window
                /\ t - cfg.window <= Len(bars) - cfg.window

\* C20: a swing high is confirmed for the first bar of a run of adjacent
\* bars that are each a local maximum of their window (they share one
\* high), and for no other bar of the run: a confirmed anchor is not
\* preceded by a local maximum, two confirmed anchors are separated by a
\* bar that is not one, and the first bar of a run is confirmed once the
\* series reaches its confirming bar.  The same for swing lows.
C20_FlatRunFirstOnly ==
    LET w == cfg.window
    IN \A t \in 1..Len(swings) :
          /\ swings[t].swing_high_confirmed => ~LocalMaxAt(t - w - 1, w)
          /\ swings[t].swing_low_confirmed => ~LocalMinAt(t - w - 1, w)
          /\ (LocalMaxAt(t - w, w) /\ ~LocalMaxAt(t - w - 1, w))
                => swings[t].swing_high_confirmed
          /\ (LocalMinAt(t - w, w) /\ ~LocalMinAt(t - w - 1, w))
                => swings[t].swing_low_confirmed
          /\ \A u \in (t + 1)..Len(swings) :
                /\ (swings[t].swing_high_confirmed /\ swings[u].swing_high_confirmed)
                      => \E j \in (t - w)..(u - w) : ~LocalMaxAt(j, w)
                /\ (swings[t].swing_low_confirmed /\ swings[u].swing_low_confirmed)
                      => \E j \in (t - w)..(u - w) : ~LocalMinAt(j, w)

\* two adjacent bars share the high that is the maximum of both their
\* windows; the first is confirmed, the second is not
C20_Witness ==
    \E a \in 1..Len(bars) :
        /\ a + 1 + cfg.window <= Len(bars)
        /\ LocalMaxAt(a, cfg.window) /\ LocalMaxAt(a + 1, cfg.window)
        /\ bars[a].high = bars[a + 1].high
        /\ swings[a + cfg.window].swing_high_confirmed
        /\ ~swings[a + 1 + cfg.window].swing_high_confirmed

\* no swing high and no swing low is confirmed on any bar
NoSwingConfirmed ==
    \A t \in 1..Len(swings) :
        ~swings[t].swing_high_confirmed /\ ~swings[t].swing_low_confirmed

\* C18: with a window of at least 1, a call of detect_swings on a series
\* of fewer than 2*window+1 bars (the empty series included) returns
\* without an error and confirms no swing.
C18_ShortSeriesEmptyResult ==
    (outcome # "idle" /\ cfg.window >= 1 /\ Len(bars) < 2 * cfg.window + 1) =>
        /\ outcome = "returned"
        /\ NoSwingConfirmed

\* C19: a call of detect_swings with a window below 1 ends with an error
\* and never returns a result.
C19_WindowBelowOneFails ==
    (outcome # "idle" /\ cfg.window < 1) => outcome # "returned"

\* a missing bar lies in the window of anchor a
NaNInWindow(a, w) ==
    \E j \in (a - w)..(a + w) : j >= 1 /\ j <= Len(bars) /\ bars[j] = NaNBar

\* C21: the anchor of a confirmed swing high (low) never has a missing high
\* (low); missing bars inside a window are left out of the local maximum
\* (minimum), so an anchor that is the first extreme of the present values
\* of its window is confirmed although the window holds a missing bar; and
\* the call returns.
C21_MissingBarsSkipped ==
    LET w == cfg.window
    IN /\ Len(bars) > 0 => outcome = "returned"
       /\ \A t \in 1..Len(swings) :
             /\ swings[t].swing_high_confirmed =>
                   (t - w >= 1 /\ NotNa(bars[t - w].high)
                      /\ NotNa(swings[t].swing_high_price))
             /\ swings[t].swing_low_confirmed =>
                   (t - w >= 1 /\ NotNa(bars[t - w].low)
                      /\ NotNa(swings[t].swing_low_price))
       /\ \A a \in 1..Len(bars) :
             (a + w <= Len(bars) /\ NaNInWindow(a, w)) =>
                /\ (LocalMaxAt(a, w) /\ ~LocalMaxAt(a - 1, w))
                      => swings[a + w].swing_high_confirmed
                /\ (LocalMinAt(a, w) /\ ~LocalMinAt(a - 1, w))
                      => swings[a + w].swing_low_confirmed

\* a missing bar sits next to the anchor inside its window, and the anchor
\* is confirmed as a swing high
C21_Witness ==
    \E a \in 2..Len(bars) :
        /\ a + cfg.window <= Len(bars)
        /\ bars[a - 1] = NaNBar
        /\ NotNa(bars[a].high)
        /\ swings[a + cfg.window].swing_high_confirmed
        /\ outcome = "returned"

\* bars s..e are a maximal run of bear (bull) bars of the series
BearRun(s, e) ==
    /\ s >= 1 /\ s <= e /\ e <= Len(bars)
    /\ \A k \in s..e : is_bear(bars[k])
    /\ (s = 1 \/ ~is_bear(bars[s - 1]))
    /\ (e = Len(bars) \/ ~is_bear(bars[e + 1]))

BullRun(s, e) ==
    /\ s >= 1 /\ s <= e /\ e <= Len(bars)
    /\ \A k \in s..e : is_bull(bars[k])
    /\ (s = 1 \/ ~is_bull(bars[s - 1]))
    /\ (e = Len(bars) \/ ~is_bull(bars[e + 1]))

\* C22: within every maximal run of bear (bull) bars the consecutive
\* detector raises its event on exactly one bar, the one where the run
\* length first equals consecutive_count, and on no other bar of the run;
\* a run shorter than consecutive_count raises none.
C22_FiresOncePerRun ==
    \A s \in 1..Len(bars) : \A e \in s..Len(bars) :
        /\ BearRun(s, e) =>
              \A k \in s..e :
                 consecutive[k].consecutive_bear_start
                     <=> (k = s + cfg.consecutive_count - 1)
        /\ BullRun(s, e) =>
              \A k \in s..e :
                 consecutive[k].consecutive_bull_start
                     <=> (k = s + cfg.consecutive_count - 1)

\* C23: an event of the consecutive detector carries the price of the bar
\* that started the run: consecutive_top_price is the high of the first bar
\* of the bear run, consecutive_bottom_price the low of the first bar of
\* the bull run (the trigger bar is the run's consecutive_count-th bar).
C23_AnchoredAtRunStart ==
    \A k \in 1..Len(consecutive) :
        LET first == k - cfg.consecutive_count + 1
        IN /\ consecutive[k].consecutive_bear_start =>
                 (first >= 1 /\ consecutive[k].consecutive_top_price = bars[first].high)
           /\ consecutive[k].consecutive_bull_start =>
                 (first >= 1 /\ consecutive[k].consecutive_bottom_price = bars[first].low)

\* true range of bar k of the series: the largest of high - low and the
\* distances of high and low from the previous close, where present
RangeAt(k) ==
    LET b == bars[k]
        rng == b.high - b.low
    IN IF k = 1 \/ bars[k - 1] = NaNBar THEN rng
       ELSE LET pc == bars[k - 1].close
            IN Max2(rng, Max2(Abs(b.high - pc), Abs(b.low - pc)))

\* bar k is a climax bar: |close - open| > atr_multiplier x the mean of the
\* true range over the last climax_lookback bars (those present)
ClimaxBarAt(k) ==
    /\ k >= 1 /\ k <= Len(bars) /\ bars[k] # NaNBar
    /\ LET win == {j \in (k - cfg.lookback + 1)..k : j >= 1 /\ bars[j] # NaNBar}
           total == SumOver([j \in win |-> RangeAt(j)], win)
       IN Abs(bars[k].close - bars[k].open) * Cardinality(win) * cfg.atr_den
             > cfg.atr_num * total

BodyAt(k) == Abs(bars[k].close - bars[k].open)

\* the conditions the claim names for a V-top (V-bottom) at bar i
VTopConditions(i) ==
    /\ i >= 2 /\ i <= Len(bars) /\ bars[i] # NaNBar
    /\ ClimaxBarAt(i - 1) /\ bars[i - 1].close > bars[i - 1].open
    /\ bars[i].close < bars[i - 1].open
    /\ 2 * BodyAt(i) > BodyAt(i - 1)

VBottomConditions(i) ==
    /\ i >= 2 /\ i <= Len(bars) /\ bars[i] # NaNBar
    /\ ClimaxBarAt(i - 1) /\ bars[i - 1].close < bars[i - 1].open
    /\ bars[i].close > bars[i - 1].open
    /\ 2 * BodyAt(i) > BodyAt(i - 1)

\* C24 as stated: is_climax_top is set at bar i whenever bar i-1 is a
\* bullish climax bar, close[i] < open[i-1] and body[i] > 0.5 x body[i-1],
\* and climax_top_price[i] is then the high of bar i-1; mirrored for the
\* V-bottom with the low of bar i-1.
C24_VTopWhenever ==
    \A i \in 1..Len(climax) :
        /\ VTopConditions(i) =>
              (climax[i].is_climax_top
                 /\ climax[i].climax_top_price = bars[i - 1].high)
        /\ VBottomConditions(i) =>
              (climax[i].is_climax_bottom
                 /\ climax[i].climax_bottom_price = bars[i - 1].low)

\* C24 amended: the same with the reversal bar itself bearish for the V-top
\* (close[i] < open[i]) and bullish for the V-bottom (close[i] > open[i]).
C24_VTopWithReversalBar ==
    \A i \in 1..Len(climax) :
        /\ (VTopConditions(i) /\ bars[i].close < bars[i].open) =>
              (climax[i].is_climax_top
                 /\ climax[i].climax_top_price = bars[i - 1].high)
        /\ (VBottomConditions(i) /\ bars[i].close > bars[i].open) =>
              (climax[i].is_climax_bottom
                 /\ climax[i].climax_bottom_price = bars[i - 1].low)

\* a bullish climax bar followed by a bearish bar that closes below its open
\* with more than half its body, and the V-top raised on that bar
C24_Witness ==
    \E i \in 2..Len(climax) :
        /\ VTopConditions(i) /\ bars[i].close < bars[i].open
        /\ climax[i].is_climax_top
        /\ climax[i].climax_top_price = bars[i - 1].high

\* C25: with atr_multiplier 2, when bar i-1 is a bullish climax bar and bar i
\* is a bearish bar that closes below the open of bar i-1 with a body of at
\* least half the climax body (exactly half included), the V-top is raised at
\* bar i with the high of bar i-1 as its price.
C25_HalfBodyBoundaryFires ==
    (cfg.atr_num = 2 /\ cfg.atr_den = 1) =>
        \A i \in 2..Len(climax) :
            (/\ bars[i] # NaNBar
             /\ ClimaxBarAt(i - 1) /\ bars[i - 1].close > bars[i - 1].open
             /\ bars[i].close < bars[i].open
             /\ bars[i].close < bars[i - 1].open
             /\ 2 * BodyAt(i) >= BodyAt(i - 1))
                => (climax[i].is_climax_top
                      /\ climax[i].climax_top_price = bars[i - 1].high)

\* C26: in the direct-overwrite classifier every HIGH event leaves
\* major_high equal to the swing's price and major_low as it was, and every
\* LOW event leaves major_low equal to the swing's price and major_high as
\* it was, whatever the previous level or label; the row written at the
\* event's bar carries these two levels.
C26_DirectOverwrite ==
    /\ event.kind = "high" =>
          /\ cls.current_major_high = event.price
          /\ cls.current_major_low = event.pre.current_major_low
          /\ event.row.major_high = event.price
          /\ event.row.major_low = event.pre.current_major_low
    /\ event.kind = "low" =>
          /\ cls.current_major_low = event.price
          /\ cls.current_major_high = event.pre.current_major_high
          /\ event.row.major_low = event.price
          /\ event.row.major_high = event.pre.current_major_high

\* a lower high (label LH) below the standing level replaces it
C26_Witness ==
    /\ event.kind = "high"
    /\ NotNa(event.pre.current_major_high)
    /\ event.price < event.pre.current_major_high
    /\ cls.label = "LH"
    /\ cls.current_major_high = event.price

\* market_trend of the bar before bar i (0 before the first bar)
TrendBefore(i) == IF i = 1 THEN 0 ELSE structure[i - 1].market_trend

\* the close of bar i lies strictly above (below) the high (low) level that
\* is active when the bar is tested
ClosesAbove(i) ==
    /\ NotNa(steps[i].tested.active_high) /\ NotNa(bars[i].close)
    /\ bars[i].close > steps[i].tested.active_high

ClosesBelow(i) ==
    /\ NotNa(steps[i].tested.active_low) /\ NotNa(bars[i].close)
    /\ bars[i].close < steps[i].tested.active_low

\* C27: in the close-based classifier market_trend changes at bar i exactly
\* when the close of bar i is strictly beyond the active level, and the new
\* value stands on that same bar: 1 when the close is above the active
\* high, otherwise -1 when it is below the active low; a bar whose high or
\* low alone pierces the level leaves market_trend as it was.
C27_CloseBreakChangesTrend ==
    \A i \in 1..Len(structure) :
        /\ (structure[i].market_trend # TrendBefore(i))
              <=> (ClosesAbove(i) \/ ClosesBelow(i))
        /\ ClosesAbove(i) => structure[i].market_trend = 1
        /\ (~ClosesAbove(i) /\ ClosesBelow(i)) => structure[i].market_trend = -1

\* a bar whose high pierces the active high while its close does not,
\* with the trend unchanged, followed by a bar that closes above it
C27_Witness ==
    \E i \in 1..Len(structure) :
        /\ i + 1 <= Len(structure)
        /\ NotNa(steps[i].tested.active_high)
        /\ bars[i].high > steps[i].tested.active_high
        /\ ~ClosesAbove(i)
        /\ structure[i].market_trend = TrendBefore(i)
        /\ ClosesAbove(i + 1)
        /\ structure[i + 1].market_trend = 1
        /\ structure[i].market_trend = 0

\* no high (low) level is active from bar i to bar j
NoHighLevel(i, j) == \A k \in i..j : IsNaN(steps[k].post.active_high)
NoLowLevel(i, j) == \A k \in i..j : IsNaN(steps[k].post.active_low)

\* C28: from the bar whose close breaks above the active high, major_high is
\* absent on that bar and on every following bar until a high level is
\* established again, and major_low (the stop line) is present on the
\* breakout bar; symmetric for a close below the active low.
C28_LevelDisappearsAfterBreak ==
    \A i \in 1..Len(structure) :
        /\ ClosesAbove(i) =>
              /\ NotNa(structure[i].major_low)
              /\ \A j \in i..Len(structure) :
                    NoHighLevel(i, j) => IsNaN(structure[j].major_high)
        /\ (~ClosesAbove(i) /\ ClosesBelow(i)) =>
              /\ NotNa(structure[i].major_high)
              /\ \A j \in i..Len(structure) :
                    NoLowLevel(i, j) => IsNaN(structure[j].major_low)

IdxOfKind(evs, kind) ==
    LET sel == SelectSeq(evs, LAMBDA e : e.kind = kind)
    IN [k \in 1..Len(sel) |-> sel[k].idx]

\* C30: the list returned by merge_sorted_events has as many events as the
\* two input lists together, its indices never decrease, and its high
\* events are exactly the input highs in input order, its low events
\* exactly the input lows in input order.
C30_MergeKeepsEveryEvent ==
    outcome = "returned" =>
        /\ Len(steps) = Len(event.high_indices) + Len(event.low_indices)
        /\ \A k \in 1..(Len(steps) - 1) : steps[k].idx <= steps[k + 1].idx
        /\ IdxOfKind(steps, "high") = event.high_indices
        /\ IdxOfKind(steps, "low") = event.low_indices
        /\ \A k \in 1..Len(steps) : steps[k].kind \in {"high", "low"}

\* the mixed case: several highs and lows interleaved, one bar carrying both
C30_Witness ==
    /\ outcome = "returned"
    /\ Len(event.high_indices) >= 2 /\ Len(event.low_indices) >= 2
    /\ \E k \in 1..(Len(steps) - 1) : steps[k].idx = steps[k + 1].idx
    /\ \E k \in 1..(Len(steps) - 1) :
          steps[k].kind = "low" /\ steps[k + 1].kind = "high"

\* C31: a configure_logging call made after a call has completed (and no
\* reset_logging since) leaves the root logger's level and handlers as they
\* were, whatever its arguments; reset_logging leaves the root logger
\* without handlers; and the first configure_logging call that completes
\* after a reset applies its own arguments.
C31_ConfigureOnlyOnce ==
    /\ (call.op = "configure_logging" /\ call.pre.configured) =>
          /\ log.level = call.pre.level
          /\ log.handlers = call.pre.handlers
          /\ log.configured
    /\ call.op = "reset_logging" =>
          (log.handlers = <<>> /\ ~log.configured)
    /\ (call.op = "configure_logging" /\ ~call.pre.configured /\ ~call.raised) =>
          /\ log.configured
          /\ log.level = numeric_level(call.args.level)
          /\ Len(log.handlers) = (IF call.args.log_to_file THEN 2 ELSE 1)
          /\ \A k \in 1..Len(log.handlers) :
                log.handlers[k].level = numeric_level(call.args.level)

\* a second call with another level and a log file arrives after a completed
\* one and changes nothing
C31_Witness ==
    /\ call.op = "configure_logging"
    /\ call.pre.configured
    /\ call.args.log_to_file
    /\ numeric_level(call.args.level) # log.level
    /\ Len(log.handlers) = 1

\* C32: a HIGH event whose price is not above the active major_high, in a
\* BULL or BEAR trend, leaves major_high, major_low and the trend as they
\* were and records only the label, the last high price and the candidate
\* high; a LOW event whose price is not below the active major_low, in a
\* BULL or BEAR trend, likewise.
C32_NoBreakoutNoChange ==
    /\ (/\ event.kind = "high"
        /\ event.pre.curr_bias # 0
        /\ NotNa(event.pre.active_major_high)
        /\ event.price <= event.pre.active_major_high) =>
          /\ cls.active_major_high = event.pre.active_major_high
          /\ cls.active_major_low = event.pre.active_major_low
          /\ cls.curr_bias = event.pre.curr_bias
          /\ cls.candidate_major_low = event.pre.candidate_major_low
          /\ cls.last_l_price = event.pre.last_l_price
          /\ cls.candidate_major_high = event.price
          /\ cls.last_h_price = event.price
    /\ (/\ event.kind = "low"
        /\ event.pre.curr_bias # 0
        /\ NotNa(event.pre.active_major_low)
        /\ event.price >= event.pre.active_major_low) =>
          /\ cls.active_major_high = event.pre.active_major_high
          /\ cls.active_major_low = event.pre.active_major_low
          /\ cls.curr_bias = event.pre.curr_bias
          /\ cls.candidate_major_high = event.pre.candidate_major_high
          /\ cls.last_h_price = event.pre.last_h_price
          /\ cls.candidate_major_low = event.price
          /\ cls.last_l_price = event.price

\* a lower high below the level in a BEAR trend: the level stays, the
\* candidate becomes the new price
C32_Witness ==
    /\ event.kind = "high"
    /\ event.pre.curr_bias = -1
    /\ event.price < event.pre.active_major_high
    /\ cls.active_major_high = event.pre.active_major_high
    /\ cls.candidate_major_high = event.price
    /\ cls.candidate_major_high # event.pre.candidate_major_high

\* C33: on the same bars and detected swings the direct-overwrite, the
\* breakout-gated and the close-based classifier write the same swing_type
\* on every bar.
C33_SameLabels ==
    LET v1 == classify_swings(bars, swings)
        v2 == classify_swings_v2(bars, swings)
    IN \A i \in 1..Len(structure) :
          /\ structure[i].swing_type = v2[i].swing_type
          /\ structure[i].swing_type = v1[i].swing_type

\* a second swing of a side is labelled against the first (a label other
\* than the first swing's HH or LL) while the levels of the gated and the
\* close-based classifier differ on that bar
C33_Witness ==
    \E i \in 1..Len(structure) :
        /\ structure[i].swing_type \in {"LH", "HL", "DT", "DB"}
        /\ classify_swings_v2(bars, swings)[i].major_high # structure[i].major_high

\* the active high level of the coming row before its override is looked
\* at: the carried level after the break test and the structural update
HighBeforeOverride ==
    LET st == runA.st
        h1 == IF Gt(row'.high, st.curr_high) THEN PosInf ELSE st.curr_high
    IN IF v2_changed(row'.major_high, st.last_v2_high) /\ NotNa(row'.major_high)
       THEN row'.major_high ELSE h1

LowBeforeOverride ==
    LET st == runA.st
        l1 == IF Lt(row'.low, st.curr_low) THEN NegInf ELSE st.curr_low
    IN IF v2_changed(row'.major_low, st.last_v2_low) /\ NotNa(row'.major_low)
       THEN row'.major_low ELSE l1

\* the coming row's override is adopted: it is what the row emits and the
\* row would have emitted something else without it
AdoptsHighOverride ==
    /\ runA.any_override
    /\ NotNa(row'.override_high_price)
    /\ runA'.adjusted_major_high = row'.override_high_price
    /\ Emit(HighBeforeOverride) # row'.override_high_price

AdoptsLowOverride ==
    /\ runA.any_override
    /\ NotNa(row'.override_low_price)
    /\ runA'.adjusted_major_low = row'.override_low_price
    /\ Emit(LowBeforeOverride) # row'.override_low_price

C35_NeutralOnlyBeforeFirstEvent ==
    [][/\ event'.n >= 1 => cls'.curr_bias \in {1, -1}
       /\ cls.curr_bias # 0 => cls'.curr_bias # 0
       /\ event.n = 0 => cls.curr_bias = 0]_vars

\* the first event was a swing low (trend BEAR) and a later swing high
\* flipped the trend to BULL
C35_Witness ==
    /\ event.n >= 2
    /\ event.kind = "high"
    /\ event.pre.curr_bias = -1
    /\ cls.curr_bias = 1

\* C36: in classify_swings_v2 a LOW event never raises major_high and a
\* HIGH event never lowers major_low: major_high right after a LOW event is
\* at most its value right before it, and major_low right after a HIGH
\* event is at least its value right before it.
C36_OppositeSideOnlyTightens ==
    /\ event.kind = "low"
          => cls.active_major_high <= event.pre.active_major_high
    /\ event.kind = "high"
          => cls.active_major_low >= event.pre.active_major_low

\* a LOW event broke the low level of a BULL trend and pulled major_high
\* down to the last swing high
C36_Witness ==
    /\ event.kind = "low"
    /\ event.pre.curr_bias = 1
    /\ cls.curr_bias = -1
    /\ cls.active_major_high < event.pre.active_major_high

\* C37: the two reversal detectors never fire on opposite sides of the
\* same bar: no bar has a climax top together with a consecutive bull
\* start, nor a climax bottom together with a consecutive bear start; no
\* detector sets both of its flags on one bar; and so override_high_price
\* and override_low_price are never both present on one bar.
C37_NeverBothSides ==
    \A i \in 1..Len(bars) :
        /\ ~(climax[i].is_climax_top /\ consecutive[i].consecutive_bull_start)
        /\ ~(climax[i].is_climax_bottom /\ consecutive[i].consecutive_bear_start)
        /\ ~(climax[i].is_climax_top /\ climax[i].is_climax_bottom)
        /\ ~(consecutive[i].consecutive_bear_start
                /\ consecutive[i].consecutive_bull_start)
        /\ ~(NotNa(override_high_price(climax[i], consecutive[i]))
                /\ NotNa(override_low_price(climax[i], consecutive[i])))

\* both detectors fired on one bar, for the same side, and a bar of the
\* same frame carries an event of the other side
C37_Witness ==
    /\ cfg.consecutive_count = 1
    /\ \E i \in 1..Len(bars) :
          /\ climax[i].is_climax_top
          /\ consecutive[i].consecutive_bear_start
          /\ NotNa(override_high_price(climax[i], consecutive[i]))
    /\ \E j \in 1..Len(bars) :
          /\ consecutive[j].consecutive_bull_start
          /\ NotNa(override_low_price(climax[j], consecutive[j]))

\* C38: two distinct confirmed swing highs whose anchor bars are at most
\* window bars apart have equal prices, and their anchors are not adjacent
\* bars; the same for swing lows.  (The anchor of a confirmation at bar t is
\* bar t - window, so the anchors are as far apart as the confirmations.)
C38_CloseSwingsEqualNotAdjacent ==
    \A i \in 1..Len(swings) : \A j \in (i + 1)..Len(swings) :
        (j - i <= cfg.window) =>
            /\ (swings[i].swing_high_confirmed /\ swings[j].swing_high_confirmed)
                  => /\ swings[i].swing_high_price = swings[j].swing_high_price
                     /\ j # i + 1
            /\ (swings[i].swing_low_confirmed /\ swings[j].swing_low_confirmed)
                  => /\ swings[i].swing_low_price = swings[j].swing_low_price
                     /\ j # i + 1

\* two swing highs confirmed two bars apart with window 2, at one price,
\* with a lower bar between their anchors
C38_Witness ==
    /\ cfg.window = 2
    /\ \E i \in 1..Len(swings) :
          /\ i + 2 <= Len(swings)
          /\ swings[i].swing_high_confirmed
          /\ swings[i + 2].swing_high_confirmed
          /\ swings[i].swing_high_price = swings[i + 2].swing_high_price
          /\ Lt(bars[i - 1].high, swings[i].swing_high_price)

\* a swing high and a swing low are confirmed on bar i
BothConfirmedAt(i) ==
    swings[i].swing_high_confirmed /\ swings[i].swing_low_confirmed

\* price of the last swing low confirmed before bar i, +inf when none
PrevLowPrice(i) ==
    LET js == {j \in 1..(i - 1) : swings[j].swing_low_confirmed}
    IN IF js = {} THEN PosInf
       ELSE swings[CHOOSE j \in js : \A k \in js : k <= j].swing_low_price

\* price of the last swing high confirmed before bar i, -inf when none
PrevHighPrice(i) ==
    LET js == {j \in 1..(i - 1) : swings[j].swing_high_confirmed}
    IN IF js = {} THEN NegInf
       ELSE swings[CHOOSE j \in js : \A k \in js : k <= j].swing_high_price

\* the label of the swing low of bar i against the swing low before it
LowLabelAt(i) == classify_swing_low(swings[i].swing_low_price, PrevLowPrice(i))

\* the label of the swing high of bar i against the swing high before it
HighLabelAt(i) == classify_swing_high(swings[i].swing_high_price, PrevHighPrice(i))

\* C39: when a swing high and a swing low are confirmed on the same bar,
\* the swing_type that classify_swings, classify_swings_v2 and
\* classify_swings_v3 write for the bar is the low's label (HL, LL or DB);
\* the high's label does not appear, yet the high has updated the
\* high-side state of each classifier.
C39_LowLabelWinsOnSharedBar ==
    LET v1 == classify_swings(bars, swings)
        v2 == classify_swings_v2(bars, swings)
        s2 == V2Steps(bars, swings)
    IN \A i \in 1..Len(swings) :
          BothConfirmedAt(i) =>
             /\ LowLabelAt(i) \in {"HL", "LL", "DB"}
             /\ v1[i].swing_type = LowLabelAt(i)
             /\ v2[i].swing_type = LowLabelAt(i)
             /\ structure[i].swing_type = LowLabelAt(i)
             /\ v1[i].major_high = swings[i].swing_high_price
             /\ \E k \in 1..Len(s2) :
                   /\ s2[k].idx = i /\ s2[k].kind = "high"
                   /\ s2[k].post.last_h_price = swings[i].swing_high_price
                   /\ s2[k].post.candidate_major_high = swings[i].swing_high_price
                   /\ k < Len(s2) /\ s2[k + 1].idx = i /\ s2[k + 1].kind = "low"
             /\ steps[i].tested.last_h_price = swings[i].swing_high_price
             /\ steps[i].tested.last_swing_high = swings[i].swing_high_price

\* a bar confirms a double top and a higher low at once: all three
\* classifiers write HL
C39_Witness ==
    \E i \in 1..Len(swings) :
        /\ BothConfirmedAt(i)
        /\ HighLabelAt(i) = "DT"
        /\ LowLabelAt(i) = "HL"
        /\ structure[i].swing_type = "HL"
        /\ classify_swings(bars, swings)[i].swing_type = "HL"
        /\ classify_swings_v2(bars, swings)[i].swing_type = "HL"

====
